---- MODULE Spec2Model ----
(***************************************************************************)
(* Model of speccy-conv.py: the Spectrum_File_Header (tape / +3 BASIC)     *)
(* and Plus3Dos_File_Header codecs, the character tables and the three     *)
(* listing functions.                                                      *)
(*                                                                         *)
(* Python values are represented as follows:                               *)
(*   bytes object   -> sequence of integers 0..255                         *)
(*   str            -> sequence of Unicode code points                     *)
(*   int            -> integer                                             *)
(*   an exception   -> the exception's class name, as a string             *)
(* A call's outcome is recorded in ret: "True", "False", "None" (a setter  *)
(* returned), "bytes" (encode returned, the bytes are in out) or the name  *)
(* of the exception that left the call.                                    *)
(***************************************************************************)
EXTENDS Integers, Sequences, FiniteSets, TLC

VARIABLES
    cur,      \* which object the caller holds: "p3" (Plus3Dos_File_Header) or "sfh" (Spectrum_File_Header)
    p3,       \* the Plus3Dos_File_Header object
    hdr,      \* the stand-alone Spectrum_File_Header object
    built,    \* TRUE while the held object was made by its constructor and setters whose assertions passed
    op,       \* the last call made
    arg,      \* bytes passed to the last decode call
    argkind,  \* how the caller made those bytes
    argn,     \* integer passed to the last constructor / set_file_length call
    ret,      \* outcome of the last call
    out,      \* bytes returned by encode, when that was the last call
    src,      \* the objects as they were when encode() produced the bytes arg was made from
    pc,          \* "idle", or "u2asm" while unicode_to_spectrum_hisoft_gen_asm is in its loop
    infile,      \* the input file of the last listing function called: bytes, or text for u2asm
    tape_header, \* the tape header file handed to the BASIC decoder: [given, bytes]
    opts,        \* the options of that call
    inpos,       \* the read position infile is at
    next_number, \* the local line_number of u2asm
    outfile,     \* the output file: text for the decoders, bytes for u2asm
    outpos,      \* the write position of the output file
    headerfile   \* the tape header file that u2asm wrote

\* the header objects in the caller's hands, and the files of the listing functions
hvars == <<cur, p3, hdr, built, arg, argkind, argn, out, src>>
lvars == <<pc, infile, tape_header, opts, inpos, next_number, outfile, outpos, headerfile>>
vars == <<cur, p3, hdr, built, op, arg, argkind, argn, ret, out, src,
          pc, infile, tape_header, opts, inpos, next_number, outfile, outpos, headerfile>>

----------------------------------------------------------------------------
\* Module-level constants of speccy-conv.py

SOFT_EOF_BYTE == <<26>>
SINCLAIR_BASIC_LINE_IS_VARIABLE == 16384
SINCLAIR_BASIC_NUMBER_LENGTH == 5
SINCLAIR_BASIC_NUMBER_MARKER == <<14>>
SINCLAIR_BASIC_TAPE_HEADER_MARKER == <<0>>

TYPE_BASIC_PROGRAM == 0
TYPE_NUMERIC_ARRAY == 1
TYPE_CHAR_ARRAY == 2
TYPE_CODE_OR_SCREEN == 3
TAPE_HEADER_TYPE == 0
PLUS3_BASIC_HEADER_TYPE == 1
TAPE_HEADER_LENGTH == 17
PLUS3_BASIC_HEADER_LENGTH == 8
FILE_NAME_MAX_LENGTH == 10
BASIC_NO_AUTO_START == 32768
CODE_DEFAULT_ADDRESS == 16384

HEADER_SIGNATURE == <<80, 76, 85, 83, 51, 68, 79, 83>> \o SOFT_EOF_BYTE
HEADER_LENGTH == 128

----------------------------------------------------------------------------
\* Python built-ins used by the header code

Min(a, b) == IF a < b THEN a ELSE b

\* s[a:b] for 0 <= a, 0 <= b (slices clamp to the length)
PySlice(s, a, b) == SubSeq(s, Min(a, Len(s)) + 1, Min(b, Len(s)))

\* s[a:]
PySliceFrom(s, a) == SubSeq(s, Min(a, Len(s)) + 1, Len(s))

\* bytes.ljust / str.ljust
LJust(s, n, fill) == IF Len(s) >= n THEN s ELSE s \o [i \in 1..(n - Len(s)) |-> fill]

\* struct.pack: raises struct.error when the value does not fit in nbytes
\* bytes (1, 2 or 4), that is unless 0 <= v < 256 ^ nbytes
PackFits(v, nbytes) ==
    /\ v >= 0
    /\ IF nbytes = 4 THEN v \div 65536 < 65536 ELSE v < 256 ^ nbytes
PackB(v) == <<v % 256>>
PackH(v) == <<v % 256, (v \div 256) % 256>>
PackI(v) == <<v % 256, (v \div 256) % 256, (v \div 65536) % 256, (v \div 16777216) % 256>>

\* struct.unpack("<H", b)[0] and struct.unpack("<I", b)[0]
UnpackH(b) == b[1] + (256 * b[2])
UnpackI(b) == b[1] + (256 * b[2]) + (65536 * b[3]) + (16777216 * b[4])

\* char.encode("utf_8"): UnicodeEncodeError on a lone surrogate
Utf8Fails(cp) == cp >= 55296 /\ cp <= 57343
Utf8(cp) ==
    IF cp < 128 THEN <<cp>>
    ELSE IF cp < 2048 THEN <<192 + (cp \div 64), 128 + (cp % 64)>>
    ELSE IF cp < 65536 THEN <<224 + (cp \div 4096), 128 + ((cp \div 64) % 64), 128 + (cp % 64)>>
    ELSE <<240 + (cp \div 262144), 128 + ((cp \div 4096) % 64), 128 + ((cp \div 64) % 64), 128 + (cp % 64)>>

\* the code points c with chr(c).isalpha(), as ranges <<first, last>>
\* (Unicode 14.0.0, the character database of Python 3.11)
IsAlphaRanges ==
    { <<65, 90>>, <<97, 122>>, <<170, 170>>, <<181, 181>>, <<186, 186>>, <<192, 214>>,
      <<216, 246>>, <<248, 705>>, <<710, 721>>, <<736, 740>>, <<748, 748>>, <<750, 750>>,
      <<880, 884>>, <<886, 887>>, <<890, 893>>, <<895, 895>>, <<902, 902>>, <<904, 906>>,
      <<908, 908>>, <<910, 929>>, <<931, 1013>>, <<1015, 1153>>, <<1162, 1327>>,
      <<1329, 1366>>, <<1369, 1369>>, <<1376, 1416>>, <<1488, 1514>>, <<1519, 1522>>,
      <<1568, 1610>>, <<1646, 1647>>, <<1649, 1747>>, <<1749, 1749>>, <<1765, 1766>>,
      <<1774, 1775>>, <<1786, 1788>>, <<1791, 1791>>, <<1808, 1808>>, <<1810, 1839>>,
      <<1869, 1957>>, <<1969, 1969>>, <<1994, 2026>>, <<2036, 2037>>, <<2042, 2042>>,
      <<2048, 2069>>, <<2074, 2074>>, <<2084, 2084>>, <<2088, 2088>>, <<2112, 2136>>,
      <<2144, 2154>>, <<2160, 2183>>, <<2185, 2190>>, <<2208, 2249>>, <<2308, 2361>>,
      <<2365, 2365>>, <<2384, 2384>>, <<2392, 2401>>, <<2417, 2432>>, <<2437, 2444>>,
      <<2447, 2448>>, <<2451, 2472>>, <<2474, 2480>>, <<2482, 2482>>, <<2486, 2489>>,
      <<2493, 2493>>, <<2510, 2510>>, <<2524, 2525>>, <<2527, 2529>>, <<2544, 2545>>,
      <<2556, 2556>>, <<2565, 2570>>, <<2575, 2576>>, <<2579, 2600>>, <<2602, 2608>>,
      <<2610, 2611>>, <<2613, 2614>>, <<2616, 2617>>, <<2649, 2652>>, <<2654, 2654>>,
      <<2674, 2676>>, <<2693, 2701>>, <<2703, 2705>>, <<2707, 2728>>, <<2730, 2736>>,
      <<2738, 2739>>, <<2741, 2745>>, <<2749, 2749>>, <<2768, 2768>>, <<2784, 2785>>,
      <<2809, 2809>>, <<2821, 2828>>, <<2831, 2832>>, <<2835, 2856>>, <<2858, 2864>>,
      <<2866, 2867>>, <<2869, 2873>>, <<2877, 2877>>, <<2908, 2909>>, <<2911, 2913>>,
      <<2929, 2929>>, <<2947, 2947>>, <<2949, 2954>>, <<2958, 2960>>, <<2962, 2965>>,
      <<2969, 2970>>, <<2972, 2972>>, <<2974, 2975>>, <<2979, 2980>>, <<2984, 2986>>,
      <<2990, 3001>>, <<3024, 3024>>, <<3077, 3084>>, <<3086, 3088>>, <<3090, 3112>>,
      <<3114, 3129>>, <<3133, 3133>>, <<3160, 3162>>, <<3165, 3165>>, <<3168, 3169>>,
      <<3200, 3200>>, <<3205, 3212>>, <<3214, 3216>>, <<3218, 3240>>, <<3242, 3251>>,
      <<3253, 3257>>, <<3261, 3261>>, <<3293, 3294>>, <<3296, 3297>>, <<3313, 3314>>,
      <<3332, 3340>>, <<3342, 3344>>, <<3346, 3386>>, <<3389, 3389>>, <<3406, 3406>>,
      <<3412, 3414>>, <<3423, 3425>>, <<3450, 3455>>, <<3461, 3478>>, <<3482, 3505>>,
      <<3507, 3515>>, <<3517, 3517>>, <<3520, 3526>>, <<3585, 3632>>, <<3634, 3635>>,
      <<3648, 3654>>, <<3713, 3714>>, <<3716, 3716>>, <<3718, 3722>>, <<3724, 3747>>,
      <<3749, 3749>>, <<3751, 3760>>, <<3762, 3763>>, <<3773, 3773>>, <<3776, 3780>>,
      <<3782, 3782>>, <<3804, 3807>>, <<3840, 3840>>, <<3904, 3911>>, <<3913, 3948>>,
      <<3976, 3980>>, <<4096, 4138>>, <<4159, 4159>>, <<4176, 4181>>, <<4186, 4189>>,
      <<4193, 4193>>, <<4197, 4198>>, <<4206, 4208>>, <<4213, 4225>>, <<4238, 4238>>,
      <<4256, 4293>>, <<4295, 4295>>, <<4301, 4301>>, <<4304, 4346>>, <<4348, 4680>>,
      <<4682, 4685>>, <<4688, 4694>>, <<4696, 4696>>, <<4698, 4701>>, <<4704, 4744>>,
      <<4746, 4749>>, <<4752, 4784>>, <<4786, 4789>>, <<4792, 4798>>, <<4800, 4800>>,
      <<4802, 4805>>, <<4808, 4822>>, <<4824, 4880>>, <<4882, 4885>>, <<4888, 4954>>,
      <<4992, 5007>>, <<5024, 5109>>, <<5112, 5117>>, <<5121, 5740>>, <<5743, 5759>>,
      <<5761, 5786>>, <<5792, 5866>>, <<5873, 5880>>, <<5888, 5905>>, <<5919, 5937>>,
      <<5952, 5969>>, <<5984, 5996>>, <<5998, 6000>>, <<6016, 6067>>, <<6103, 6103>>,
      <<6108, 6108>>, <<6176, 6264>>, <<6272, 6276>>, <<6279, 6312>>, <<6314, 6314>>,
      <<6320, 6389>>, <<6400, 6430>>, <<6480, 6509>>, <<6512, 6516>>, <<6528, 6571>>,
      <<6576, 6601>>, <<6656, 6678>>, <<6688, 6740>>, <<6823, 6823>>, <<6917, 6963>>,
      <<6981, 6988>>, <<7043, 7072>>, <<7086, 7087>>, <<7098, 7141>>, <<7168, 7203>>,
      <<7245, 7247>>, <<7258, 7293>>, <<7296, 7304>>, <<7312, 7354>>, <<7357, 7359>>,
      <<7401, 7404>>, <<7406, 7411>>, <<7413, 7414>>, <<7418, 7418>>, <<7424, 7615>>,
      <<7680, 7957>>, <<7960, 7965>>, <<7968, 8005>>, <<8008, 8013>>, <<8016, 8023>>,
      <<8025, 8025>>, <<8027, 8027>>, <<8029, 8029>>, <<8031, 8061>>, <<8064, 8116>>,
      <<8118, 8124>>, <<8126, 8126>>, <<8130, 8132>>, <<8134, 8140>>, <<8144, 8147>>,
      <<8150, 8155>>, <<8160, 8172>>, <<8178, 8180>>, <<8182, 8188>>, <<8305, 8305>>,
      <<8319, 8319>>, <<8336, 8348>>, <<8450, 8450>>, <<8455, 8455>>, <<8458, 8467>>,
      <<8469, 8469>>, <<8473, 8477>>, <<8484, 8484>>, <<8486, 8486>>, <<8488, 8488>>,
      <<8490, 8493>>, <<8495, 8505>>, <<8508, 8511>>, <<8517, 8521>>, <<8526, 8526>>,
      <<8579, 8580>>, <<11264, 11492>>, <<11499, 11502>>, <<11506, 11507>>, <<11520, 11557>>,
      <<11559, 11559>>, <<11565, 11565>>, <<11568, 11623>>, <<11631, 11631>>, <<11648, 11670>>,
      <<11680, 11686>>, <<11688, 11694>>, <<11696, 11702>>, <<11704, 11710>>, <<11712, 11718>>,
      <<11720, 11726>>, <<11728, 11734>>, <<11736, 11742>>, <<11823, 11823>>, <<12293, 12294>>,
      <<12337, 12341>>, <<12347, 12348>>, <<12353, 12438>>, <<12445, 12447>>, <<12449, 12538>>,
      <<12540, 12543>>, <<12549, 12591>>, <<12593, 12686>>, <<12704, 12735>>, <<12784, 12799>>,
      <<13312, 19903>>, <<19968, 42124>>, <<42192, 42237>>, <<42240, 42508>>, <<42512, 42527>>,
      <<42538, 42539>>, <<42560, 42606>>, <<42623, 42653>>, <<42656, 42725>>, <<42775, 42783>>,
      <<42786, 42888>>, <<42891, 42954>>, <<42960, 42961>>, <<42963, 42963>>, <<42965, 42969>>,
      <<42994, 43009>>, <<43011, 43013>>, <<43015, 43018>>, <<43020, 43042>>, <<43072, 43123>>,
      <<43138, 43187>>, <<43250, 43255>>, <<43259, 43259>>, <<43261, 43262>>, <<43274, 43301>>,
      <<43312, 43334>>, <<43360, 43388>>, <<43396, 43442>>, <<43471, 43471>>, <<43488, 43492>>,
      <<43494, 43503>>, <<43514, 43518>>, <<43520, 43560>>, <<43584, 43586>>, <<43588, 43595>>,
      <<43616, 43638>>, <<43642, 43642>>, <<43646, 43695>>, <<43697, 43697>>, <<43701, 43702>>,
      <<43705, 43709>>, <<43712, 43712>>, <<43714, 43714>>, <<43739, 43741>>, <<43744, 43754>>,
      <<43762, 43764>>, <<43777, 43782>>, <<43785, 43790>>, <<43793, 43798>>, <<43808, 43814>>,
      <<43816, 43822>>, <<43824, 43866>>, <<43868, 43881>>, <<43888, 44002>>, <<44032, 55203>>,
      <<55216, 55238>>, <<55243, 55291>>, <<63744, 64109>>, <<64112, 64217>>, <<64256, 64262>>,
      <<64275, 64279>>, <<64285, 64285>>, <<64287, 64296>>, <<64298, 64310>>, <<64312, 64316>>,
      <<64318, 64318>>, <<64320, 64321>>, <<64323, 64324>>, <<64326, 64433>>, <<64467, 64829>>,
      <<64848, 64911>>, <<64914, 64967>>, <<65008, 65019>>, <<65136, 65140>>, <<65142, 65276>>,
      <<65313, 65338>>, <<65345, 65370>>, <<65382, 65470>>, <<65474, 65479>>, <<65482, 65487>>,
      <<65490, 65495>>, <<65498, 65500>>, <<65536, 65547>>, <<65549, 65574>>, <<65576, 65594>>,
      <<65596, 65597>>, <<65599, 65613>>, <<65616, 65629>>, <<65664, 65786>>, <<66176, 66204>>,
      <<66208, 66256>>, <<66304, 66335>>, <<66349, 66368>>, <<66370, 66377>>, <<66384, 66421>>,
      <<66432, 66461>>, <<66464, 66499>>, <<66504, 66511>>, <<66560, 66717>>, <<66736, 66771>>,
      <<66776, 66811>>, <<66816, 66855>>, <<66864, 66915>>, <<66928, 66938>>, <<66940, 66954>>,
      <<66956, 66962>>, <<66964, 66965>>, <<66967, 66977>>, <<66979, 66993>>, <<66995, 67001>>,
      <<67003, 67004>>, <<67072, 67382>>, <<67392, 67413>>, <<67424, 67431>>, <<67456, 67461>>,
      <<67463, 67504>>, <<67506, 67514>>, <<67584, 67589>>, <<67592, 67592>>, <<67594, 67637>>,
      <<67639, 67640>>, <<67644, 67644>>, <<67647, 67669>>, <<67680, 67702>>, <<67712, 67742>>,
      <<67808, 67826>>, <<67828, 67829>>, <<67840, 67861>>, <<67872, 67897>>, <<67968, 68023>>,
      <<68030, 68031>>, <<68096, 68096>>, <<68112, 68115>>, <<68117, 68119>>, <<68121, 68149>>,
      <<68192, 68220>>, <<68224, 68252>>, <<68288, 68295>>, <<68297, 68324>>, <<68352, 68405>>,
      <<68416, 68437>>, <<68448, 68466>>, <<68480, 68497>>, <<68608, 68680>>, <<68736, 68786>>,
      <<68800, 68850>>, <<68864, 68899>>, <<69248, 69289>>, <<69296, 69297>>, <<69376, 69404>>,
      <<69415, 69415>>, <<69424, 69445>>, <<69488, 69505>>, <<69552, 69572>>, <<69600, 69622>>,
      <<69635, 69687>>, <<69745, 69746>>, <<69749, 69749>>, <<69763, 69807>>, <<69840, 69864>>,
      <<69891, 69926>>, <<69956, 69956>>, <<69959, 69959>>, <<69968, 70002>>, <<70006, 70006>>,
      <<70019, 70066>>, <<70081, 70084>>, <<70106, 70106>>, <<70108, 70108>>, <<70144, 70161>>,
      <<70163, 70187>>, <<70272, 70278>>, <<70280, 70280>>, <<70282, 70285>>, <<70287, 70301>>,
      <<70303, 70312>>, <<70320, 70366>>, <<70405, 70412>>, <<70415, 70416>>, <<70419, 70440>>,
      <<70442, 70448>>, <<70450, 70451>>, <<70453, 70457>>, <<70461, 70461>>, <<70480, 70480>>,
      <<70493, 70497>>, <<70656, 70708>>, <<70727, 70730>>, <<70751, 70753>>, <<70784, 70831>>,
      <<70852, 70853>>, <<70855, 70855>>, <<71040, 71086>>, <<71128, 71131>>, <<71168, 71215>>,
      <<71236, 71236>>, <<71296, 71338>>, <<71352, 71352>>, <<71424, 71450>>, <<71488, 71494>>,
      <<71680, 71723>>, <<71840, 71903>>, <<71935, 71942>>, <<71945, 71945>>, <<71948, 71955>>,
      <<71957, 71958>>, <<71960, 71983>>, <<71999, 71999>>, <<72001, 72001>>, <<72096, 72103>>,
      <<72106, 72144>>, <<72161, 72161>>, <<72163, 72163>>, <<72192, 72192>>, <<72203, 72242>>,
      <<72250, 72250>>, <<72272, 72272>>, <<72284, 72329>>, <<72349, 72349>>, <<72368, 72440>>,
      <<72704, 72712>>, <<72714, 72750>>, <<72768, 72768>>, <<72818, 72847>>, <<72960, 72966>>,
      <<72968, 72969>>, <<72971, 73008>>, <<73030, 73030>>, <<73056, 73061>>, <<73063, 73064>>,
      <<73066, 73097>>, <<73112, 73112>>, <<73440, 73458>>, <<73648, 73648>>, <<73728, 74649>>,
      <<74880, 75075>>, <<77712, 77808>>, <<77824, 78894>>, <<82944, 83526>>, <<92160, 92728>>,
      <<92736, 92766>>, <<92784, 92862>>, <<92880, 92909>>, <<92928, 92975>>, <<92992, 92995>>,
      <<93027, 93047>>, <<93053, 93071>>, <<93760, 93823>>, <<93952, 94026>>, <<94032, 94032>>,
      <<94099, 94111>>, <<94176, 94177>>, <<94179, 94179>>, <<94208, 100343>>,
      <<100352, 101589>>, <<101632, 101640>>, <<110576, 110579>>, <<110581, 110587>>,
      <<110589, 110590>>, <<110592, 110882>>, <<110928, 110930>>, <<110948, 110951>>,
      <<110960, 111355>>, <<113664, 113770>>, <<113776, 113788>>, <<113792, 113800>>,
      <<113808, 113817>>, <<119808, 119892>>, <<119894, 119964>>, <<119966, 119967>>,
      <<119970, 119970>>, <<119973, 119974>>, <<119977, 119980>>, <<119982, 119993>>,
      <<119995, 119995>>, <<119997, 120003>>, <<120005, 120069>>, <<120071, 120074>>,
      <<120077, 120084>>, <<120086, 120092>>, <<120094, 120121>>, <<120123, 120126>>,
      <<120128, 120132>>, <<120134, 120134>>, <<120138, 120144>>, <<120146, 120485>>,
      <<120488, 120512>>, <<120514, 120538>>, <<120540, 120570>>, <<120572, 120596>>,
      <<120598, 120628>>, <<120630, 120654>>, <<120656, 120686>>, <<120688, 120712>>,
      <<120714, 120744>>, <<120746, 120770>>, <<120772, 120779>>, <<122624, 122654>>,
      <<123136, 123180>>, <<123191, 123197>>, <<123214, 123214>>, <<123536, 123565>>,
      <<123584, 123627>>, <<124896, 124902>>, <<124904, 124907>>, <<124909, 124910>>,
      <<124912, 124926>>, <<124928, 125124>>, <<125184, 125251>>, <<125259, 125259>>,
      <<126464, 126467>>, <<126469, 126495>>, <<126497, 126498>>, <<126500, 126500>>,
      <<126503, 126503>>, <<126505, 126514>>, <<126516, 126519>>, <<126521, 126521>>,
      <<126523, 126523>>, <<126530, 126530>>, <<126535, 126535>>, <<126537, 126537>>,
      <<126539, 126539>>, <<126541, 126543>>, <<126545, 126546>>, <<126548, 126548>>,
      <<126551, 126551>>, <<126553, 126553>>, <<126555, 126555>>, <<126557, 126557>>,
      <<126559, 126559>>, <<126561, 126562>>, <<126564, 126564>>, <<126567, 126570>>,
      <<126572, 126578>>, <<126580, 126583>>, <<126585, 126588>>, <<126590, 126590>>,
      <<126592, 126601>>, <<126603, 126619>>, <<126625, 126627>>, <<126629, 126633>>,
      <<126635, 126651>>, <<131072, 173791>>, <<173824, 177976>>, <<177984, 178205>>,
      <<178208, 183969>>, <<183984, 191456>>, <<194560, 195101>>, <<196608, 201546>> }

\* str.isalpha() of a one-character string
IsAlpha(cp) == \E r \in IsAlphaRanges : r[1] <= cp /\ cp <= r[2]

\* the code points c with chr(c).isalnum() and not chr(c).isalpha(): the
\* decimal digits, digits and numeric characters, as ranges <<first, last>>
IsNumericRanges ==
    { <<48, 57>>, <<178, 179>>, <<185, 185>>, <<188, 190>>, <<1632, 1641>>, <<1776, 1785>>,
      <<1984, 1993>>, <<2406, 2415>>, <<2534, 2543>>, <<2548, 2553>>, <<2662, 2671>>,
      <<2790, 2799>>, <<2918, 2927>>, <<2930, 2935>>, <<3046, 3058>>, <<3174, 3183>>,
      <<3192, 3198>>, <<3302, 3311>>, <<3416, 3422>>, <<3430, 3448>>, <<3558, 3567>>,
      <<3664, 3673>>, <<3792, 3801>>, <<3872, 3891>>, <<4160, 4169>>, <<4240, 4249>>,
      <<4969, 4988>>, <<5870, 5872>>, <<6112, 6121>>, <<6128, 6137>>, <<6160, 6169>>,
      <<6470, 6479>>, <<6608, 6618>>, <<6784, 6793>>, <<6800, 6809>>, <<6992, 7001>>,
      <<7088, 7097>>, <<7232, 7241>>, <<7248, 7257>>, <<8304, 8304>>, <<8308, 8313>>,
      <<8320, 8329>>, <<8528, 8578>>, <<8581, 8585>>, <<9312, 9371>>, <<9450, 9471>>,
      <<10102, 10131>>, <<11517, 11517>>, <<12295, 12295>>, <<12321, 12329>>, <<12344, 12346>>,
      <<12690, 12693>>, <<12832, 12841>>, <<12872, 12879>>, <<12881, 12895>>, <<12928, 12937>>,
      <<12977, 12991>>, <<42528, 42537>>, <<42726, 42735>>, <<43056, 43061>>, <<43216, 43225>>,
      <<43264, 43273>>, <<43472, 43481>>, <<43504, 43513>>, <<43600, 43609>>, <<44016, 44025>>,
      <<65296, 65305>>, <<65799, 65843>>, <<65856, 65912>>, <<65930, 65931>>, <<66273, 66299>>,
      <<66336, 66339>>, <<66369, 66369>>, <<66378, 66378>>, <<66513, 66517>>, <<66720, 66729>>,
      <<67672, 67679>>, <<67705, 67711>>, <<67751, 67759>>, <<67835, 67839>>, <<67862, 67867>>,
      <<68028, 68029>>, <<68032, 68047>>, <<68050, 68095>>, <<68160, 68168>>, <<68221, 68222>>,
      <<68253, 68255>>, <<68331, 68335>>, <<68440, 68447>>, <<68472, 68479>>, <<68521, 68527>>,
      <<68858, 68863>>, <<68912, 68921>>, <<69216, 69246>>, <<69405, 69414>>, <<69457, 69460>>,
      <<69573, 69579>>, <<69714, 69743>>, <<69872, 69881>>, <<69942, 69951>>, <<70096, 70105>>,
      <<70113, 70132>>, <<70384, 70393>>, <<70736, 70745>>, <<70864, 70873>>, <<71248, 71257>>,
      <<71360, 71369>>, <<71472, 71483>>, <<71904, 71922>>, <<72016, 72025>>, <<72784, 72812>>,
      <<73040, 73049>>, <<73120, 73129>>, <<73664, 73684>>, <<74752, 74862>>, <<92768, 92777>>,
      <<92864, 92873>>, <<93008, 93017>>, <<93019, 93025>>, <<93824, 93846>>,
      <<119520, 119539>>, <<119648, 119672>>, <<120782, 120831>>, <<123200, 123209>>,
      <<123632, 123641>>, <<125127, 125135>>, <<125264, 125273>>, <<126065, 126123>>,
      <<126125, 126127>>, <<126129, 126132>>, <<126209, 126253>>, <<126255, 126269>>,
      <<127232, 127244>>, <<130032, 130041>> }

\* str.isalnum() of a one-character string that is not a letter
IsNumeric(cp) == \E r \in IsNumericRanges : r[1] <= cp /\ cp <= r[2]

\* str.strip(): the white-space characters
IsSpace(cp) ==
    \/ cp \in 9..13
    \/ cp \in 28..32
    \/ cp \in {133, 160, 5760, 8232, 8233, 8239, 8287, 12288}
    \/ cp \in 8192..8202

RECURSIVE LStrip(_)
LStrip(s) == IF s # <<>> /\ IsSpace(Head(s)) THEN LStrip(Tail(s)) ELSE s

RECURSIVE RStrip(_)
RStrip(s) == IF s # <<>> /\ IsSpace(s[Len(s)]) THEN RStrip(SubSeq(s, 1, Len(s) - 1)) ELSE s

Strip(s) == RStrip(LStrip(s))

\* Indexing or iterating a bytes object yields an int, and an int never
\* compares equal to a bytes object: header_bytes[0] == b'\x00' is False.
IntEqualsBytes(i, bs) == FALSE

\* The legacy-to-Unicode tables are keyed by bytes objects, so an int key
\* (an element of a bytes object) is never found in them.
IntInBytesKeyedDict(i) == FALSE

\* for byte in s: total += byte   (summed by halves)
RECURSIVE SumRange(_, _, _)
SumRange(s, lo, hi) ==
    IF lo > hi THEN 0
    ELSE IF lo = hi THEN s[lo]
    ELSE SumRange(s, lo, (lo + hi) \div 2) + SumRange(s, ((lo + hi) \div 2) + 1, hi)

SumBytes(s) == SumRange(s, 1, Len(s))

\* a ^ b on bytes
RECURSIVE XorBits(_, _, _)
XorBits(a, b, n) ==
    IF n = 0 THEN 0
    ELSE (IF (a % 2) # (b % 2) THEN 1 ELSE 0) + (2 * XorBits(a \div 2, b \div 2, n - 1))

XorByte(a, b) == XorBits(a, b, 8)

\* for byte in s: checkxor ^= byte   (folded by halves)
RECURSIVE XorRange(_, _, _)
XorRange(s, lo, hi) ==
    IF lo > hi THEN 0
    ELSE IF lo = hi THEN s[lo]
    ELSE XorByte(XorRange(s, lo, (lo + hi) \div 2), XorRange(s, ((lo + hi) \div 2) + 1, hi))

XorBytes(s) == XorRange(s, 1, Len(s))

\* the concatenation of the byte strings ss[1], ..., ss[n]
RECURSIVE ConcatFirst(_, _)
ConcatFirst(ss, n) == IF n = 0 THEN <<>> ELSE ConcatFirst(ss, n - 1) \o ss[n]

Concat(ss) == ConcatFirst(ss, Len(ss))

----------------------------------------------------------------------------
\* Unicode-to-legacy table: pairs <<key string, bytes>>, as the dict literal
\* of the source defines it.

dict_unicode_to_spectrum ==
    { <<<<9>>, <<6>>>>, <<<<10>>, <<13>>>>, <<<<8218, 220, 235>>, <<94>>>>,
      <<<<172, 163>>, <<96>>>>, <<<<172, 169>>, <<127>>>>, <<<<160>>, <<128>>>>,
      <<<<8194>>, <<128>>>>, <<<<8195>>, <<128>>>>, <<<<10240>>, <<128>>>>,
      <<<<12288>>, <<128>>>>, <<<<9629>>, <<129>>>>, <<<<9624>>, <<130>>>>,
      <<<<9600>>, <<131>>>>, <<<<9623>>, <<132>>>>, <<<<9616>>, <<133>>>>,
      <<<<9626>>, <<134>>>>, <<<<9628>>, <<135>>>>, <<<<9622>>, <<136>>>>,
      <<<<9630>>, <<137>>>>, <<<<9612>>, <<138>>>>, <<<<9627>>, <<139>>>>,
      <<<<9604>>, <<140>>>>, <<<<9631>>, <<141>>>>, <<<<9625>>, <<142>>>>,
      <<<<9608>>, <<143>>>>, <<<<8218, 237, 8706>>, <<144>>>>, <<<<8218, 237, 8721>>, <<145>>>>,
      <<<<8218, 237, 8719>>, <<146>>>>, <<<<8218, 237, 960>>, <<147>>>>, <<<<8218, 237, 8747>>, <<148>>>>,
      <<<<8218, 237, 170>>, <<149>>>>, <<<<8218, 237, 186>>, <<150>>>>, <<<<8218, 237, 937>>, <<151>>>>,
      <<<<8218, 237, 230>>, <<152>>>>, <<<<8218, 237, 248>>, <<153>>>>, <<<<8218, 236, 196>>, <<154>>>>,
      <<<<8218, 236, 197>>, <<155>>>>, <<<<8218, 236, 199>>, <<156>>>>, <<<<8218, 236, 201>>, <<157>>>>,
      <<<<8218, 236, 209>>, <<158>>>>, <<<<8218, 236, 214>>, <<159>>>>, <<<<8218, 236, 220>>, <<160>>>>,
      <<<<8218, 236, 225>>, <<161>>>>, <<<<8218, 236, 224>>, <<162>>>>, <<<<8218, 236, 226>>, <<163>>>>,
      <<<<8218, 236, 228>>, <<164>>>>, <<<<8218, 236, 234>>, <<144>>>>, <<<<8218, 236, 235>>, <<145>>>>,
      <<<<8218, 236, 237>>, <<146>>>>, <<<<8218, 236, 236>>, <<147>>>>, <<<<8218, 236, 238>>, <<148>>>>,
      <<<<8218, 236, 239>>, <<149>>>>, <<<<8218, 236, 241>>, <<150>>>>, <<<<8218, 236, 243>>, <<151>>>>,
      <<<<8218, 236, 242>>, <<152>>>>, <<<<8218, 236, 244>>, <<153>>>>, <<<<8218, 236, 246>>, <<154>>>>,
      <<<<8218, 236, 245>>, <<155>>>>, <<<<8218, 236, 250>>, <<156>>>>, <<<<8218, 236, 249>>, <<157>>>>,
      <<<<8218, 236, 251>>, <<158>>>>, <<<<8218, 236, 252>>, <<159>>>>, <<<<8218, 236, 8224>>, <<160>>>>,
      <<<<8218, 236, 176>>, <<161>>>>, <<<<8218, 236, 162>>, <<162>>>>, <<<<8218, 236, 163>>, <<163>>>>,
      <<<<8218, 236, 167>>, <<164>>>>, <<<<63743, 252, 209, 8734>>, <<144>>>>, <<<<63743, 252, 209, 177>>, <<145>>>>,
      <<<<63743, 252, 209, 8804>>, <<146>>>>, <<<<63743, 252, 209, 8805>>, <<147>>>>, <<<<63743, 252, 209, 165>>, <<148>>>>,
      <<<<63743, 252, 209, 181>>, <<149>>>>, <<<<63743, 252, 209, 8706>>, <<150>>>>, <<<<63743, 252, 209, 8721>>, <<151>>>>,
      <<<<63743, 252, 209, 8719>>, <<152>>>>, <<<<63743, 252, 209, 960>>, <<153>>>>, <<<<63743, 252, 209, 8747>>, <<154>>>>,
      <<<<63743, 252, 209, 170>>, <<155>>>>, <<<<63743, 252, 209, 186>>, <<156>>>>, <<<<63743, 252, 209, 937>>, <<157>>>>,
      <<<<63743, 252, 209, 230>>, <<158>>>>, <<<<63743, 252, 209, 248>>, <<159>>>>, <<<<63743, 252, 214, 196>>, <<160>>>>,
      <<<<63743, 252, 214, 197>>, <<161>>>>, <<<<63743, 252, 214, 199>>, <<162>>>>, <<<<63743, 252, 214, 201>>, <<163>>>>,
      <<<<63743, 252, 214, 209>>, <<164>>>>, <<<<63743, 252, 214, 234>>, <<144>>>>, <<<<63743, 252, 214, 235>>, <<145>>>>,
      <<<<63743, 252, 214, 237>>, <<146>>>>, <<<<63743, 252, 214, 236>>, <<147>>>>, <<<<63743, 252, 214, 238>>, <<148>>>>,
      <<<<63743, 252, 214, 239>>, <<149>>>>, <<<<63743, 252, 214, 241>>, <<150>>>>, <<<<63743, 252, 214, 243>>, <<151>>>>,
      <<<<63743, 252, 214, 242>>, <<152>>>>, <<<<63743, 252, 214, 244>>, <<153>>>>, <<<<63743, 252, 214, 246>>, <<154>>>>,
      <<<<63743, 252, 214, 245>>, <<155>>>>, <<<<63743, 252, 214, 250>>, <<156>>>>, <<<<63743, 252, 214, 249>>, <<157>>>>,
      <<<<63743, 252, 214, 251>>, <<158>>>>, <<<<63743, 252, 214, 252>>, <<159>>>>, <<<<63743, 252, 214, 8224>>, <<160>>>>,
      <<<<63743, 252, 214, 176>>, <<161>>>>, <<<<63743, 252, 214, 162>>, <<162>>>>, <<<<63743, 252, 214, 163>>, <<163>>>>,
      <<<<63743, 252, 214, 167>>, <<164>>>>, <<<<63743, 252, 214, 8734>>, <<144>>>>, <<<<63743, 252, 214, 177>>, <<145>>>>,
      <<<<63743, 252, 214, 8804>>, <<146>>>>, <<<<63743, 252, 214, 8805>>, <<147>>>>, <<<<63743, 252, 214, 165>>, <<148>>>>,
      <<<<63743, 252, 214, 181>>, <<149>>>>, <<<<63743, 252, 214, 8706>>, <<150>>>>, <<<<63743, 252, 214, 8721>>, <<151>>>>,
      <<<<63743, 252, 214, 8719>>, <<152>>>>, <<<<63743, 252, 214, 960>>, <<153>>>>, <<<<63743, 252, 214, 8747>>, <<154>>>>,
      <<<<63743, 252, 214, 170>>, <<155>>>>, <<<<63743, 252, 214, 186>>, <<156>>>>, <<<<63743, 252, 214, 937>>, <<157>>>>,
      <<<<63743, 252, 214, 230>>, <<158>>>>, <<<<63743, 252, 214, 248>>, <<159>>>>, <<<<63743, 252, 220, 196>>, <<160>>>>,
      <<<<63743, 252, 220, 197>>, <<161>>>>, <<<<63743, 252, 220, 199>>, <<162>>>>, <<<<63743, 252, 220, 201>>, <<163>>>>,
      <<<<63743, 252, 220, 209>>, <<164>>>> }

DictHas(d, k) == \E p \in d : p[1] = k
DictGet(d, k, default) == IF DictHas(d, k) THEN (CHOOSE p \in d : p[1] = k)[2] ELSE default

\* dict_unicode_to_spectrum.get( char, char.encode(CHARSET_UNICODE_CHAR) )
EncodeChar(cp) == DictGet(dict_unicode_to_spectrum, <<cp>>, Utf8(cp))

----------------------------------------------------------------------------
\* class Spectrum_File_Header

\* lines 418-421: the two assertions of __init__ hold
SfhInitAsserts(header_type, file_name) ==
    /\ header_type = TAPE_HEADER_TYPE \/ header_type = PLUS3_BASIC_HEADER_TYPE
    /\ Len(file_name) <= FILE_NAME_MAX_LENGTH

\* __init__( header_type, file_name, file_length ): the object made, or
\* "AssertionError" when an assertion fails and no object is made
SfhInit(header_type, file_name, file_length) ==
    IF ~SfhInitAsserts(header_type, file_name) THEN "AssertionError"
    ELSE [ header_type                |-> header_type,
           file_type                  |-> 0,
           file_name                  |-> file_name,
           file_length                |-> file_length,
           basic_automatic_start_line |-> 0,
           basic_prog_length          |-> 0,
           code_load_address          |-> 0,
           array_name                 |-> <<0>> ]

header_length(h) ==
    IF h.header_type = TAPE_HEADER_TYPE THEN TAPE_HEADER_LENGTH ELSE PLUS3_BASIC_HEADER_LENGTH

\* The setters assign file_type before their assertion is evaluated.
set_type_basic_program(h, start_line, offset_to_prog) ==
    LET h1 == [h EXCEPT !.file_type = TYPE_BASIC_PROGRAM]
    IN  IF ~(start_line = BASIC_NO_AUTO_START \/ (start_line >= 1 /\ start_line <= 9999))
        THEN [ret |-> "AssertionError", obj |-> h1]
        ELSE [ret |-> "None",
              obj |-> [h1 EXCEPT !.basic_automatic_start_line = start_line,
                                 !.basic_prog_length = offset_to_prog]]

set_type_numeric_array(h, name) ==
    LET h1 == [h EXCEPT !.file_type = TYPE_NUMERIC_ARRAY]
    IN  IF ~(Len(name) = 1 /\ IsAlpha(name[1]))
        THEN [ret |-> "AssertionError", obj |-> h1]
        ELSE [ret |-> "None", obj |-> [h1 EXCEPT !.array_name = name]]

set_type_char_array(h, name) ==
    LET h1 == [h EXCEPT !.file_type = TYPE_CHAR_ARRAY]
    IN  IF ~(Len(name) = 1 /\ IsAlpha(name[1]))
        THEN [ret |-> "AssertionError", obj |-> h1]
        ELSE [ret |-> "None", obj |-> [h1 EXCEPT !.array_name = name]]

set_type_code_or_screen(h, load_address) ==
    [ret |-> "None",
     obj |-> [h EXCEPT !.file_type = TYPE_CODE_OR_SCREEN, !.code_load_address = load_address]]

is_zeroed(h) ==
    /\ h.file_type = 0
    /\ h.file_length = 0
    /\ h.basic_automatic_start_line = 0
    /\ h.basic_prog_length = 0
    /\ h.code_load_address = 0
    /\ h.array_name = <<0>>

\* file_name.strip()[:FILE_NAME_MAX_LENGTH].ljust(FILE_NAME_MAX_LENGTH)
PaddedName(h) ==
    LJust(PySlice(Strip(h.file_name), 0, FILE_NAME_MAX_LENGTH), FILE_NAME_MAX_LENGTH, 32)

\* the bytes of the subtype-specific fields, lines 493-509
SfhEncodeSubtype(h) ==
    IF h.file_type = TYPE_BASIC_PROGRAM
    THEN IF ~PackFits(h.basic_automatic_start_line, 2) \/ ~PackFits(h.basic_prog_length, 2)
         THEN [ret |-> "struct.error", bytes |-> <<>>]
         ELSE [ret |-> "bytes",
               bytes |-> PackH(h.basic_automatic_start_line) \o PackH(h.basic_prog_length)]
    ELSE IF h.file_type = TYPE_NUMERIC_ARRAY \/ h.file_type = TYPE_CHAR_ARRAY
    THEN IF h.array_name = <<>>
         THEN [ret |-> "IndexError", bytes |-> <<>>]
         ELSE IF Utf8Fails(h.array_name[1])
         THEN [ret |-> "UnicodeEncodeError", bytes |-> <<>>]
         ELSE [ret |-> "bytes", bytes |-> <<0>> \o EncodeChar(h.array_name[1]) \o <<0, 0>>]
    ELSE IF h.file_type = TYPE_CODE_OR_SCREEN
    THEN IF ~PackFits(h.code_load_address, 2)
         THEN [ret |-> "struct.error", bytes |-> <<>>]
         ELSE [ret |-> "bytes",
               bytes |-> PackH(h.code_load_address)
                         \o (IF h.header_type = TAPE_HEADER_TYPE THEN <<0, 128>> ELSE <<0, 0>>)]
    ELSE [ret |-> "bytes", bytes |-> <<>>]

\* encode(): ret is "bytes" and bytes the header, or ret names the exception
SfhEncode(h) ==
    IF ~(h.header_type = TAPE_HEADER_TYPE \/ ~is_zeroed(h))
    THEN [ret |-> "bytes", bytes |-> LJust(<<>>, header_length(h), 0)]
    ELSE IF ~PackFits(h.file_type, 1)
    THEN [ret |-> "struct.error", bytes |-> <<>>]
    ELSE IF h.header_type = TAPE_HEADER_TYPE /\ \E i \in 1..FILE_NAME_MAX_LENGTH : Utf8Fails(PaddedName(h)[i])
    THEN [ret |-> "UnicodeEncodeError", bytes |-> <<>>]
    ELSE IF ~PackFits(h.file_length, 2)
    THEN [ret |-> "struct.error", bytes |-> <<>>]
    ELSE LET name == IF h.header_type = TAPE_HEADER_TYPE
                     THEN Concat([i \in 1..FILE_NAME_MAX_LENGTH |-> EncodeChar(PaddedName(h)[i])])
                     ELSE <<>>
             sub  == SfhEncodeSubtype(h)
             all  == LJust(PackB(h.file_type) \o name \o PackH(h.file_length) \o sub.bytes,
                           header_length(h), 0)
         IN  IF sub.ret # "bytes" THEN sub
             ELSE IF Len(all) # header_length(h) THEN [ret |-> "AssertionError", bytes |-> <<>>]
             ELSE [ret |-> "bytes", bytes |-> all]

\* SfhZeroSelf without the re-initialisation: self keeps its fields
SfhZeroSelf_Keep(h) == h

\* self.__init__( self.header_type ), line 533
SfhZeroSelf(h) == SfhInit(h.header_type, <<>>, 0)

\* lines 576-594: the subtype-specific fields of decode; o has file_type and
\* file_length assigned, hb is header_bytes without the file name
SfhDecodeSubtype(o, hb) ==
    IF o.file_type = TYPE_BASIC_PROGRAM
    THEN LET o1 == [o EXCEPT !.basic_automatic_start_line = UnpackH(PySlice(hb, 3, 5)),
                             !.basic_prog_length = UnpackH(PySlice(hb, 5, 7))]
         IN  [ret |-> IF o1.basic_automatic_start_line = BASIC_NO_AUTO_START
                         \/ (o1.basic_automatic_start_line >= 1 /\ o1.basic_automatic_start_line <= 9999)
                      THEN "True" ELSE "False",
              obj |-> o1]
    ELSE IF o.file_type = TYPE_NUMERIC_ARRAY \/ o.file_type = TYPE_CHAR_ARRAY
    THEN \* header_bytes[4] is an int: the default argument header_bytes[4].decode(...)
         \* of dict.get is evaluated first and int has no decode()
         [ret |-> "AttributeError", obj |-> o]
    ELSE IF o.file_type = TYPE_CODE_OR_SCREEN
    THEN [ret |-> "True", obj |-> [o EXCEPT !.code_load_address = UnpackH(PySlice(hb, 3, 5))]]
    ELSE [ret |-> "False", obj |-> o]

\* lines 556-596: decode once any tape wrapper is removed; z is the zeroed self
SfhDecodeFields(z, hb) ==
    IF Len(hb) # header_length(z)
    THEN [ret |-> "False", obj |-> z]
    ELSE IF ~(z.header_type = TAPE_HEADER_TYPE \/ hb # LJust(<<>>, header_length(z), 0))
    THEN [ret |-> "True", obj |-> z]
    ELSE LET o1   == [z EXCEPT !.file_type = hb[1]]
             tape == z.header_type = TAPE_HEADER_TYPE
             name == IF tape THEN PySlice(hb, 1, FILE_NAME_MAX_LENGTH + 1) ELSE <<>>
         IN  \* a byte of the name that is not a key of dict_spectrum48_to_unicode
             \* goes to byte.decode(), and byte is an int
             IF \E i \in 1..Len(name) : ~IntInBytesKeyedDict(name[i])
             THEN [ret |-> "AttributeError", obj |-> o1]
             ELSE LET hb2 == IF tape THEN PySliceFrom(hb, FILE_NAME_MAX_LENGTH + 1 - 1) ELSE hb
                      o2  == [o1 EXCEPT !.file_name = <<>>,
                                        !.file_length = UnpackH(PySlice(hb2, 1, 3))]
                  IN  SfhDecodeSubtype(o2, hb2)

\* decode( header_bytes ): ret is "True", "False" or the exception, obj is self afterwards
SfhDecode(h, header_bytes) ==
    LET z       == SfhZeroSelf(h)
        wrapped == h.header_type = TAPE_HEADER_TYPE /\ Len(header_bytes) = header_length(h) + 2
        inner   == PySlice(header_bytes, 1, Len(header_bytes) - 1)
    IN  IF ~wrapped THEN SfhDecodeFields(z, header_bytes)
        ELSE IF ~IntEqualsBytes(header_bytes[1], SINCLAIR_BASIC_TAPE_HEADER_MARKER)
        THEN [ret |-> "False", obj |-> z]
        ELSE IF XorBytes(inner) # header_bytes[Len(header_bytes)]
        THEN [ret |-> "False", obj |-> z]
        ELSE SfhDecodeFields(z, inner)

----------------------------------------------------------------------------
\* class Plus3Dos_File_Header

P3Init(file_length) ==
    [ signature               |-> HEADER_SIGNATURE,
      issue_number            |-> 1,
      version_number          |-> 0,
      file_length_with_header |-> HEADER_LENGTH + file_length,
      basic_header            |-> SfhInit(PLUS3_BASIC_HEADER_TYPE, <<>>, 0) ]

\* set_file_length that writes the sub-header's file_length unconditionally
set_file_length_Always(p, file_length) ==
    [p EXCEPT !.file_length_with_header = HEADER_LENGTH + file_length,
              !.basic_header = [p.basic_header EXCEPT !.file_length = file_length]]

set_file_length(p, file_length) ==
    [p EXCEPT !.file_length_with_header = HEADER_LENGTH + file_length,
              !.basic_header = IF ~is_zeroed(p.basic_header)
                               THEN [p.basic_header EXCEPT !.file_length = file_length]
                               ELSE p.basic_header]

\* EncodeChecksum with the XOR of the tape check byte in place of the sum
EncodeChecksum_Xor(header_bytes) == XorBytes(header_bytes)

\* lines 636-639 of encode
EncodeChecksum(header_bytes) == SumBytes(header_bytes) % 256

P3Encode(p) ==
    IF ~PackFits(p.issue_number, 1) \/ ~PackFits(p.version_number, 1)
       \/ ~PackFits(p.file_length_with_header, 4)
    THEN [ret |-> "struct.error", bytes |-> <<>>]
    ELSE LET sub  == SfhEncode(p.basic_header)
             body == LJust(p.signature \o PackB(p.issue_number) \o PackB(p.version_number)
                           \o PackI(p.file_length_with_header) \o sub.bytes,
                           HEADER_LENGTH - 1, 0)
             all  == body \o PackB(EncodeChecksum(body))
         IN  IF sub.ret # "bytes" THEN sub
             ELSE IF Len(all) # HEADER_LENGTH THEN [ret |-> "AssertionError", bytes |-> <<>>]
             ELSE [ret |-> "bytes", bytes |-> all]

\* DecodeChecksum with the wrong modulus
DecodeChecksum_Mod128(header_bytes) ==
    SumBytes(PySlice(header_bytes, 0, Len(header_bytes) - 1)) % 128

\* lines 665-668 of decode
DecodeChecksum(header_bytes) == SumBytes(PySlice(header_bytes, 0, Len(header_bytes) - 1)) % 256

\* P3DecodeCommit that assigns self before it looks at the embedded header's result
P3DecodeCommit_Early(p, issue_number, version_number, file_length_with_header, sub) ==
    [ret |-> sub.ret,
     obj |-> [P3Init(0) EXCEPT !.issue_number = issue_number,
                               !.version_number = version_number,
                               !.file_length_with_header = file_length_with_header,
                               !.basic_header = sub.obj]]

\* lines 683-692 of decode: self is assigned only when the embedded header decoded
P3DecodeCommit(p, issue_number, version_number, file_length_with_header, sub) ==
    IF sub.ret # "True"
    THEN [ret |-> sub.ret, obj |-> p]
    ELSE [ret |-> "True",
          obj |-> [P3Init(0) EXCEPT !.issue_number = issue_number,
                                    !.version_number = version_number,
                                    !.file_length_with_header = file_length_with_header,
                                    !.basic_header = sub.obj]]

P3Decode(p, header_bytes) ==
    IF Len(header_bytes) # HEADER_LENGTH
    THEN [ret |-> "False", obj |-> p]
    ELSE IF Len(p.signature) # 9
    THEN [ret |-> "AssertionError", obj |-> p]
    ELSE IF PySlice(header_bytes, 0, Len(p.signature)) # p.signature
    THEN [ret |-> "False", obj |-> p]
    ELSE IF DecodeChecksum(header_bytes) # header_bytes[Len(header_bytes)]
    THEN [ret |-> "False", obj |-> p]
    ELSE P3DecodeCommit(p, header_bytes[10], header_bytes[11],
                        UnpackI(PySlice(header_bytes, 11, 15)),
                        SfhDecode(SfhInit(PLUS3_BASIC_HEADER_TYPE, <<>>, 0),
                                  PySlice(header_bytes, 15, 23)))

----------------------------------------------------------------------------
\* Legacy-to-Unicode tables: pairs <<key bytes, string>>

dict_spectrum128_to_unicode ==
    { <<<<6>>, <<9>>>>, <<<<13>>, <<10>>>>, <<<<94>>, <<8218, 220, 235>>>>, <<<<96>>, <<172, 163>>>>,
      <<<<127>>, <<172, 169>>>>, <<<<128>>, <<10240>>>>, <<<<129>>, <<9629>>>>, <<<<130>>, <<9624>>>>,
      <<<<131>>, <<9600>>>>, <<<<132>>, <<9623>>>>, <<<<133>>, <<9616>>>>, <<<<134>>, <<9626>>>>,
      <<<<135>>, <<9628>>>>, <<<<136>>, <<9622>>>>, <<<<137>>, <<9630>>>>, <<<<138>>, <<9612>>>>,
      <<<<139>>, <<9627>>>>, <<<<140>>, <<9604>>>>, <<<<141>>, <<9631>>>>, <<<<142>>, <<9625>>>>,
      <<<<143>>, <<9608>>>>, <<<<144>>, <<63743, 252, 214, 8734>>>>, <<<<145>>, <<63743, 252, 214, 177>>>>,
      <<<<146>>, <<63743, 252, 214, 8804>>>>, <<<<147>>, <<63743, 252, 214, 8805>>>>,
      <<<<148>>, <<63743, 252, 214, 165>>>>, <<<<149>>, <<63743, 252, 214, 181>>>>,
      <<<<150>>, <<63743, 252, 214, 8706>>>>, <<<<151>>, <<63743, 252, 214, 8721>>>>,
      <<<<152>>, <<63743, 252, 214, 8719>>>>, <<<<153>>, <<63743, 252, 214, 960>>>>,
      <<<<154>>, <<63743, 252, 214, 8747>>>>, <<<<155>>, <<63743, 252, 214, 170>>>>,
      <<<<156>>, <<63743, 252, 214, 186>>>>, <<<<157>>, <<63743, 252, 214, 937>>>>,
      <<<<158>>, <<63743, 252, 214, 230>>>>, <<<<159>>, <<63743, 252, 214, 248>>>>,
      <<<<160>>, <<63743, 252, 220, 196>>>>, <<<<161>>, <<63743, 252, 220, 197>>>>,
      <<<<162>>, <<63743, 252, 220, 199>>>>, <<<<163>>, <<32, 83, 80, 69, 67, 84, 82, 85, 77, 32>>>>,
      <<<<164>>, <<32, 80, 76, 65, 89, 32>>>>, <<<<165>>, <<82, 78, 68>>>>,
      <<<<166>>, <<73, 78, 75, 69, 89, 36>>>>, <<<<167>>, <<80, 73>>>>, <<<<168>>, <<70, 78, 32>>>>,
      <<<<169>>, <<80, 79, 73, 78, 84, 32>>>>, <<<<170>>, <<83, 67, 82, 69, 69, 78, 36, 32>>>>,
      <<<<171>>, <<65, 84, 84, 82, 32>>>>, <<<<172>>, <<65, 84, 32>>>>, <<<<173>>, <<84, 65, 66, 32>>>>,
      <<<<174>>, <<86, 65, 76, 36, 32>>>>, <<<<175>>, <<67, 79, 68, 69, 32>>>>, <<<<176>>, <<86, 65, 76, 32>>>>,
      <<<<177>>, <<76, 69, 78, 32>>>>, <<<<178>>, <<83, 73, 78, 32>>>>, <<<<179>>, <<67, 79, 83, 32>>>>,
      <<<<180>>, <<84, 65, 78, 32>>>>, <<<<181>>, <<65, 83, 78, 32>>>>, <<<<182>>, <<65, 67, 83, 32>>>>,
      <<<<183>>, <<65, 84, 78, 32>>>>, <<<<184>>, <<76, 78, 32>>>>, <<<<185>>, <<69, 88, 80, 32>>>>,
      <<<<186>>, <<73, 78, 84, 32>>>>, <<<<187>>, <<83, 81, 82, 32>>>>, <<<<188>>, <<83, 71, 78, 32>>>>,
      <<<<189>>, <<65, 66, 83, 32>>>>, <<<<190>>, <<80, 69, 69, 75, 32>>>>, <<<<191>>, <<73, 78, 32>>>>,
      <<<<192>>, <<85, 83, 82, 32>>>>, <<<<193>>, <<83, 84, 82, 36, 32>>>>, <<<<194>>, <<67, 72, 82, 36, 32>>>>,
      <<<<195>>, <<78, 79, 84, 32>>>>, <<<<196>>, <<66, 73, 78, 32>>>>, <<<<197>>, <<32, 79, 82, 32>>>>,
      <<<<198>>, <<32, 65, 78, 68, 32>>>>, <<<<199>>, <<60, 61>>>>, <<<<200>>, <<62, 61>>>>,
      <<<<201>>, <<60, 62>>>>, <<<<202>>, <<32, 76, 73, 78, 69, 32>>>>, <<<<203>>, <<32, 84, 72, 69, 78, 32>>>>,
      <<<<204>>, <<32, 84, 79, 32>>>>, <<<<205>>, <<32, 83, 84, 69, 80, 32>>>>,
      <<<<206>>, <<32, 68, 69, 70, 32, 70, 78, 32>>>>, <<<<207>>, <<32, 67, 65, 84, 32>>>>,
      <<<<208>>, <<32, 70, 79, 82, 77, 65, 84, 32>>>>, <<<<209>>, <<32, 77, 79, 86, 69, 32>>>>,
      <<<<210>>, <<32, 69, 82, 65, 83, 69, 32>>>>, <<<<211>>, <<32, 79, 80, 69, 78, 32, 35>>>>,
      <<<<212>>, <<32, 67, 76, 79, 83, 69, 32, 35>>>>, <<<<213>>, <<32, 77, 69, 82, 71, 69, 32>>>>,
      <<<<214>>, <<32, 86, 69, 82, 73, 70, 89, 32>>>>, <<<<215>>, <<32, 66, 69, 69, 80, 32>>>>,
      <<<<216>>, <<32, 67, 73, 82, 67, 76, 69, 32>>>>, <<<<217>>, <<32, 73, 78, 75, 32>>>>,
      <<<<218>>, <<32, 80, 65, 80, 69, 82, 32>>>>, <<<<219>>, <<32, 70, 76, 65, 83, 72, 32>>>>,
      <<<<220>>, <<32, 66, 82, 73, 71, 72, 84, 32>>>>, <<<<221>>, <<32, 73, 78, 86, 69, 82, 83, 69, 32>>>>,
      <<<<222>>, <<32, 79, 86, 69, 82, 32>>>>, <<<<223>>, <<32, 79, 85, 84, 32>>>>,
      <<<<224>>, <<32, 76, 80, 82, 73, 78, 84, 32>>>>, <<<<225>>, <<32, 76, 76, 73, 83, 84, 32>>>>,
      <<<<226>>, <<32, 83, 84, 79, 80, 32>>>>, <<<<227>>, <<32, 82, 69, 65, 68, 32>>>>,
      <<<<228>>, <<32, 68, 65, 84, 65, 32>>>>, <<<<229>>, <<32, 82, 69, 83, 84, 79, 82, 69, 32>>>>,
      <<<<230>>, <<32, 78, 69, 87, 32>>>>, <<<<231>>, <<32, 66, 79, 82, 68, 69, 82, 32>>>>,
      <<<<232>>, <<32, 67, 79, 78, 84, 73, 78, 85, 69, 32>>>>, <<<<233>>, <<32, 68, 73, 77, 32>>>>,
      <<<<234>>, <<32, 82, 69, 77, 32>>>>, <<<<235>>, <<32, 70, 79, 82, 32>>>>,
      <<<<236>>, <<32, 71, 79, 32, 84, 79, 32>>>>, <<<<237>>, <<32, 71, 79, 32, 83, 85, 66, 32>>>>,
      <<<<238>>, <<32, 73, 78, 80, 85, 84, 32>>>>, <<<<239>>, <<32, 76, 79, 65, 68, 32>>>>,
      <<<<240>>, <<32, 76, 73, 83, 84, 32>>>>, <<<<241>>, <<32, 76, 69, 84, 32>>>>,
      <<<<242>>, <<32, 80, 65, 85, 83, 69, 32>>>>, <<<<243>>, <<32, 78, 69, 88, 84, 32>>>>,
      <<<<244>>, <<32, 80, 79, 75, 69, 32>>>>, <<<<245>>, <<32, 80, 82, 73, 78, 84, 32>>>>,
      <<<<246>>, <<32, 80, 76, 79, 84, 32>>>>, <<<<247>>, <<32, 82, 85, 78, 32>>>>,
      <<<<248>>, <<32, 83, 65, 86, 69, 32>>>>, <<<<249>>, <<32, 82, 65, 78, 68, 79, 77, 73, 90, 69, 32>>>>,
      <<<<250>>, <<32, 73, 70, 32>>>>, <<<<251>>, <<32, 67, 76, 83, 32>>>>,
      <<<<252>>, <<32, 68, 82, 65, 87, 32>>>>, <<<<253>>, <<32, 67, 76, 69, 65, 82, 32>>>>,
      <<<<254>>, <<32, 82, 69, 84, 85, 82, 78, 32>>>>, <<<<255>>, <<32, 67, 79, 80, 89, 32>>>> }

\* d = other.copy(); d[k] = v
DictSet(d, k, v) == { p \in d : p[1] # k } \cup { <<k, v>> }

\* if k in d: del d[k]
DictDelIfPresent(d, k) == { p \in d : p[1] # k }

dict_spectrum48_to_unicode ==
    DictSet(DictSet(dict_spectrum128_to_unicode, <<163>>, <<63743, 252, 220, 201>>),
            <<164>>, <<63743, 252, 220, 209>>)

\* the key deleted is b'\t', the byte 0x09
dict_spectrum_hisoft_gen_asm_to_unicode == DictDelIfPresent(dict_spectrum48_to_unicode, <<9>>)

\* the key deleted is '\t', the character U+0009
dict_unicode_to_spectrum_hisoft_gen_asm == DictDelIfPresent(dict_unicode_to_spectrum, <<9>>)

----------------------------------------------------------------------------
\* Files and text formatting used by the listing functions

\* infile.read( n ) at position pos, and the position after it
Read(file, pos, n) == PySlice(file, pos, pos + n)
ReadPos(file, pos, n) == Min(pos + n, Len(file))

\* the two bytes read as "<H"
UnpackBigH_Little(b) == b[1] + (256 * b[2])

\* struct.unpack(">H", b)[0]
UnpackBigH(b) == (256 * b[1]) + b[2]

\* str( n ) for n >= 0
RECURSIVE Digits(_)
Digits(n) == IF n < 10 THEN <<48 + n>> ELSE Digits(n \div 10) \o <<48 + (n % 10)>>

\* f"{n:<width>d}": right-aligned in width columns, longer numbers are not cut
FormatD(n, width) ==
    IF Len(Digits(n)) >= width THEN Digits(n)
    ELSE [i \in 1..(width - Len(Digits(n))) |-> 32] \o Digits(n)

\* byte.decode( CHARSET_UNICODE_CHAR ) of a one-byte bytes object:
\* UnicodeDecodeError unless the byte is ASCII
DecodeFails(byte) == byte[1] >= 128

\* the 32Mb default of max_length
DEFAULT_MAX_LENGTH == 32 * 1024 * 1024

----------------------------------------------------------------------------
\* spectrum_sinclair_bas_to_unicode
\*
\* The loops work on a record s: pos is the read position of infile,
\* max_length the local of that name, out the text written to outfile, and
\* at the place reached: "line" (the top of the loop over the line records),
\* "content" (the top of the loop over a line's bytes), "return" (the
\* function returned) or the name of the exception raised.

\* the stop-at-soft-EOF test on the two line-number bytes: each is an int
\* (an element of a bytes object) compared with the bytes object SOFT_EOF_BYTE
SoftEofInLineNumber(stop_at_soft_eof, hb) ==
    stop_at_soft_eof /\ (IntEqualsBytes(hb[1], SOFT_EOF_BYTE) \/ IntEqualsBytes(hb[2], SOFT_EOF_BYTE))

\* the 5 bytes after the number marker translated like any other byte
BasSkipNumber_None(file, s) == s

\* lines 1007-1010: infile.read( 5 ); max_length -= 5
BasSkipNumber(file, s) ==
    [s EXCEPT !.pos = ReadPos(file, s.pos, SINCLAIR_BASIC_NUMBER_LENGTH),
              !.max_length = @ - SINCLAIR_BASIC_NUMBER_LENGTH]

\* lines 995-1021: one pass of the loop over a line's bytes
BasContentStep(file, dict, stop_at_soft_eof, s) ==
    IF ~(s.max_length > 0) THEN [s EXCEPT !.out = @ \o <<10>>, !.at = "line"]
    ELSE LET byte == Read(file, s.pos, 1)
             t    == [s EXCEPT !.pos = ReadPos(file, s.pos, 1), !.max_length = @ - 1]
         IN  IF Len(byte) < 1 \/ (stop_at_soft_eof /\ byte = SOFT_EOF_BYTE)
             THEN [t EXCEPT !.at = "return"]
             ELSE IF byte = SINCLAIR_BASIC_NUMBER_MARKER
             THEN BasSkipNumber(file, t)
             ELSE IF byte = <<13>>
             THEN [t EXCEPT !.out = @ \o <<10>>, !.at = "line"]
             ELSE IF DictHas(dict, byte)
             THEN [t EXCEPT !.out = @ \o DictGet(dict, byte, <<>>)]
             ELSE IF DecodeFails(byte)
             THEN [t EXCEPT !.at = "UnicodeDecodeError"]
             ELSE [t EXCEPT !.out = @ \o byte]

\* the VARS test applied whether or not the program length is known
BasIsVariable_Always(prog_length_is_known, line_number) ==
    line_number >= SINCLAIR_BASIC_LINE_IS_VARIABLE

\* lines 987-988
BasIsVariable(prog_length_is_known, line_number) ==
    ~prog_length_is_known /\ line_number >= SINCLAIR_BASIC_LINE_IS_VARIABLE

\* lines 968-992: the start of one pass of the loop over the line records
BasLineStep(file, stop_at_soft_eof, prog_length_is_known, s) ==
    IF ~(s.max_length > 2) THEN [s EXCEPT !.at = "return"]
    ELSE LET hb == Read(file, s.pos, 4)
             t  == [s EXCEPT !.pos = ReadPos(file, s.pos, 4), !.max_length = @ - 4]
         IN  IF Len(hb) < 4 \/ SoftEofInLineNumber(stop_at_soft_eof, hb)
             THEN [t EXCEPT !.at = "return"]
             ELSE IF BasIsVariable(prog_length_is_known, UnpackBigH(PySlice(hb, 0, 2)))
             THEN [t EXCEPT !.at = "return"]
             ELSE [t EXCEPT !.out = @ \o FormatD(UnpackBigH(PySlice(hb, 0, 2)), 4) \o <<32>>,
                            !.at = "content"]

BasStep(file, dict, stop_at_soft_eof, prog_length_is_known, s) ==
    IF s.at = "line" THEN BasLineStep(file, stop_at_soft_eof, prog_length_is_known, s)
    ELSE IF s.at = "content" THEN BasContentStep(file, dict, stop_at_soft_eof, s)
    ELSE s

\* n passes, taken by halves
RECURSIVE BasSteps(_, _, _, _, _, _)
BasSteps(file, dict, stop_at_soft_eof, prog_length_is_known, s, n) ==
    IF n = 0 \/ s.at \notin {"line", "content"} THEN s
    ELSE IF n = 1 THEN BasStep(file, dict, stop_at_soft_eof, prog_length_is_known, s)
    ELSE BasSteps(file, dict, stop_at_soft_eof, prog_length_is_known,
                  BasSteps(file, dict, stop_at_soft_eof, prog_length_is_known, s, n \div 2),
                  n - (n \div 2))

\* every pass but the last reads at least one byte, so the loops are left
\* within Len(file) + 3 passes
BasLines(file, dict, stop_at_soft_eof, prog_length_is_known, s) ==
    BasSteps(file, dict, stop_at_soft_eof, prog_length_is_known, s, Len(file) + 3)

\* lines 931-939: the optional tape header file. th is [given, bytes].
\* When decode returns True, line 937 reads tape_header.basic_header, an
\* attribute a Spectrum_File_Header does not have: AttributeError.
BasTapeHeader(th) ==
    IF ~th.given
    THEN [ret |-> "None", max_length |-> DEFAULT_MAX_LENGTH, prog_length_is_known |-> FALSE]
    ELSE LET d == SfhDecode(SfhInit(TAPE_HEADER_TYPE, <<>>, 0), th.bytes)
         IN  IF d.ret \notin {"True", "False"}
             THEN [ret |-> d.ret, max_length |-> DEFAULT_MAX_LENGTH, prog_length_is_known |-> FALSE]
             ELSE IF d.ret = "True"
             THEN [ret |-> "AttributeError", max_length |-> DEFAULT_MAX_LENGTH,
                   prog_length_is_known |-> FALSE]
             ELSE [ret |-> "None", max_length |-> DEFAULT_MAX_LENGTH, prog_length_is_known |-> FALSE]

\* lines 731-735 and 946-950: the optional leading +3DOS header
ReadPlus3DosHeader(file) ==
    IF Len(Read(file, 0, HEADER_LENGTH)) = HEADER_LENGTH
    THEN P3Decode(P3Init(0), Read(file, 0, HEADER_LENGTH))
    ELSE [ret |-> "False", obj |-> P3Init(0)]

\* the option left as the caller passed it when a +3DOS header was found
StopAfterHeader_Keep(stop_at_soft_eof, header_found) == stop_at_soft_eof

\* lines 739 and 962: stop_at_soft_eof = False once a +3DOS header was found
StopAfterHeader(stop_at_soft_eof, header_found) == stop_at_soft_eof /\ ~header_found

\* lines 951-958: the bounds a decoded +3DOS header gives
BasHeaderBounds(p, before) ==
    IF ~is_zeroed(p.basic_header) /\ p.basic_header.file_type = TYPE_BASIC_PROGRAM
    THEN [max_length |-> Min(p.file_length_with_header - HEADER_LENGTH, p.basic_header.basic_prog_length),
          prog_length_is_known |-> TRUE]
    ELSE [max_length |-> p.file_length_with_header - HEADER_LENGTH,
          prog_length_is_known |-> before.prog_length_is_known]

\* The whole function. The result is [ret, out, pos]: ret is "None" or the
\* exception that left the function, out the text written to the output
\* file, pos the read position infile was left at.
spectrum_sinclair_bas_to_unicode(file, th, use_spectrum48k_tokens, stop_at_soft_eof) ==
    LET dict == IF use_spectrum48k_tokens THEN dict_spectrum48_to_unicode
                ELSE dict_spectrum128_to_unicode
        tape == BasTapeHeader(th)
        h    == ReadPlus3DosHeader(file)
        b    == BasHeaderBounds(h.obj, tape)
        s    == IF h.ret = "True"
                THEN [pos |-> HEADER_LENGTH, max_length |-> b.max_length, out |-> <<>>, at |-> "line"]
                ELSE [pos |-> 0, max_length |-> tape.max_length, out |-> <<>>, at |-> "line"]
        r    == BasLines(file, dict, StopAfterHeader(stop_at_soft_eof, h.ret = "True"),
                         IF h.ret = "True" THEN b.prog_length_is_known ELSE tape.prog_length_is_known, s)
    IN  IF tape.ret # "None" THEN [ret |-> tape.ret, out |-> <<>>, pos |-> 0]
        ELSE IF h.ret \notin {"True", "False"}
        THEN [ret |-> h.ret, out |-> <<>>, pos |-> ReadPos(file, 0, HEADER_LENGTH)]
        ELSE [ret |-> IF r.at = "return" THEN "None" ELSE r.at, out |-> r.out, pos |-> r.pos]

----------------------------------------------------------------------------
\* spectrum_hisoft_gen_asm_to_unicode

\* lines 773-796: one pass of the loop over a line's bytes
AsmContentStep(file, stop_at_soft_eof, s) ==
    IF ~(s.max_length > 0) THEN [s EXCEPT !.out = @ \o <<10>>, !.at = "line"]
    ELSE LET byte == Read(file, s.pos, 1)
             t    == [s EXCEPT !.pos = ReadPos(file, s.pos, 1), !.max_length = @ - 1]
         IN  IF Len(byte) < 1 \/ (stop_at_soft_eof /\ byte = SOFT_EOF_BYTE)
             THEN [t EXCEPT !.at = "return"]
             ELSE IF byte = <<13>>
             THEN [t EXCEPT !.out = @ \o <<10>>, !.at = "line"]
             ELSE IF DictHas(dict_spectrum_hisoft_gen_asm_to_unicode, byte)
             THEN [t EXCEPT !.out = @ \o DictGet(dict_spectrum_hisoft_gen_asm_to_unicode, byte, <<>>)]
             ELSE IF DecodeFails(byte)
             THEN [t EXCEPT !.at = "UnicodeDecodeError"]
             ELSE [t EXCEPT !.out = @ \o byte]

\* the lead field compared with the bytes left after it
IsLeadFileLength_After(line_number, max_length) == line_number = max_length

\* line 764: max_length was already lowered by the 2 bytes of the field
IsLeadFileLength(line_number, max_length) == line_number = max_length + 2

\* lines 745-770: the start of one pass of the loop over the line records;
\* s.waiting is waiting_for_lead_file_length
AsmLineStep(file, include_line_numbers, stop_at_soft_eof, s) ==
    IF ~(s.max_length > 2) THEN [s EXCEPT !.at = "return"]
    ELSE LET hb == Read(file, s.pos, 2)
             t  == [s EXCEPT !.pos = ReadPos(file, s.pos, 2), !.max_length = @ - 2, !.waiting = FALSE]
         IN  IF Len(hb) < 2 \/ SoftEofInLineNumber(stop_at_soft_eof, hb)
             THEN [t EXCEPT !.waiting = s.waiting, !.at = "return"]
             ELSE IF s.waiting /\ IsLeadFileLength(UnpackH(hb), t.max_length)
             THEN t
             ELSE IF include_line_numbers
             THEN [t EXCEPT !.out = @ \o FormatD(UnpackH(hb), 6) \o <<32, 32>>, !.at = "content"]
             ELSE [t EXCEPT !.at = "content"]

AsmStep(file, include_line_numbers, stop_at_soft_eof, s) ==
    IF s.at = "line" THEN AsmLineStep(file, include_line_numbers, stop_at_soft_eof, s)
    ELSE IF s.at = "content" THEN AsmContentStep(file, stop_at_soft_eof, s)
    ELSE s

\* n passes, taken by halves
RECURSIVE AsmSteps(_, _, _, _, _)
AsmSteps(file, include_line_numbers, stop_at_soft_eof, s, n) ==
    IF n = 0 \/ s.at \notin {"line", "content"} THEN s
    ELSE IF n = 1 THEN AsmStep(file, include_line_numbers, stop_at_soft_eof, s)
    ELSE AsmSteps(file, include_line_numbers, stop_at_soft_eof,
                  AsmSteps(file, include_line_numbers, stop_at_soft_eof, s, n \div 2),
                  n - (n \div 2))

\* every pass but the last reads at least one byte, so the loops are left
\* within Len(file) + 3 passes
AsmLines(file, include_line_numbers, stop_at_soft_eof, s) ==
    AsmSteps(file, include_line_numbers, stop_at_soft_eof, s, Len(file) + 3)

\* The whole function; the result is as for spectrum_sinclair_bas_to_unicode.
\* Lines 725-727: max_length starts as the size of the file.
spectrum_hisoft_gen_asm_to_unicode(file, include_line_numbers, stop_at_soft_eof) ==
    LET h == ReadPlus3DosHeader(file)
        s == IF h.ret = "True"
             THEN [pos |-> HEADER_LENGTH, max_length |-> h.obj.file_length_with_header - HEADER_LENGTH,
                   out |-> <<>>, at |-> "line", waiting |-> TRUE]
             ELSE [pos |-> 0, max_length |-> Len(file), out |-> <<>>, at |-> "line", waiting |-> TRUE]
        r == AsmLines(file, include_line_numbers, StopAfterHeader(stop_at_soft_eof, h.ret = "True"), s)
    IN  IF h.ret \notin {"True", "False"}
        THEN [ret |-> h.ret, out |-> <<>>, pos |-> ReadPos(file, 0, HEADER_LENGTH)]
        ELSE [ret |-> IF r.at = "return" THEN "None" ELSE r.at, out |-> r.out, pos |-> r.pos]

----------------------------------------------------------------------------
\* unicode_to_spectrum_hisoft_gen_asm
\*
\* The input file is the text the text layer hands to readline(): a
\* sequence of code points in which every line end is "\n" (10).

\* infile.readline() at position pos: up to and including the next "\n"
LineEnd(text, pos) ==
    IF \E i \in (pos + 1)..Len(text) : text[i] = 10
    THEN CHOOSE i \in (pos + 1)..Len(text) : text[i] = 10 /\ \A j \in (pos + 1)..(i - 1) : text[j] # 10
    ELSE Len(text)
ReadLine(text, pos) == SubSeq(text, pos + 1, LineEnd(text, pos))

\* \w of a str pattern (Unicode-aware): str.isalnum() or "_"
IsWordChar(cp) == IsAlpha(cp) \/ IsNumeric(cp) \/ cp = 95

\* the number of leading characters of s, from index i on, that are in set
RunLength(s, i, set) ==
    IF i > Len(s) THEN 0
    ELSE IF \A j \in i..Len(s) : s[j] \in set THEN Len(s) - i + 1
    ELSE (CHOOSE j \in i..Len(s) : s[j] \notin set /\ \A k \in i..(j - 1) : s[k] \in set) - i

\* sys.get_int_max_str_digits() of the runtime (its default): int() refuses
\* a string of more digits, whatever its value
INT_MAX_STR_DIGITS == 4300

\* int( digits ) raises ValueError: no digit, or more digits than the limit
IntRaises(digits) == digits = <<>> \/ Len(digits) > INT_MAX_STR_DIGITS

\* the value of a string of ASCII digits
RECURSIVE DecimalValue(_)
DecimalValue(digits) ==
    IF digits = <<>> THEN 0
    ELSE (10 * DecimalValue(SubSeq(digits, 1, Len(digits) - 1))) + (digits[Len(digits)] - 48)

\* int( digits ) for a string of ASCII digits, as group 1 of the pattern is:
\* the value (leading zeros add nothing to it), or ValueError
IntOf(digits) ==
    IF IntRaises(digits) THEN "ValueError"
    ELSE DecimalValue(SubSeq(digits, RunLength(digits, 1, {48}) + 1, Len(digits)))

\* regex_line_number.match( line_text ) for  \A[ ]*([0-9]+)\b[ ]{0,2}(.*)\Z :
\* [matched, group1, group2]
RegexLineNumber(line_text) ==
    LET sp == RunLength(line_text, 1, {32})
        dg == RunLength(line_text, sp + 1, 48..57)
        e  == sp + dg
        g  == Min(RunLength(line_text, e + 1, {32}), 2)
    IN  IF dg >= 1 /\ (e = Len(line_text) \/ ~IsWordChar(line_text[e + 1]))
        THEN [matched |-> TRUE, group1 |-> SubSeq(line_text, sp + 1, e),
              group2 |-> SubSeq(line_text, e + g + 1, Len(line_text))]
        ELSE [matched |-> FALSE, group1 |-> <<>>, group2 |-> <<>>]

\* an explicit number that also replaces the step
LineNumberInc_FromExplicit(regex_match, line_number_inc) ==
    IF regex_match.matched THEN IntOf(regex_match.group1) ELSE line_number_inc

\* line 827: the step is set once and never assigned again
LineNumberInc(regex_match, line_number_inc) == line_number_inc

\* lines 863-864: the characters of line_text written one by one, up to the
\* first one whose char.encode() raises
RECURSIVE EncodeLine(_, _)
EncodeLine(line_text, i) ==
    IF i > Len(line_text) THEN [ret |-> "None", bytes |-> <<>>]
    ELSE IF Utf8Fails(line_text[i]) THEN [ret |-> "UnicodeEncodeError", bytes |-> <<>>]
    ELSE LET rest == EncodeLine(line_text, i + 1)
         IN  [ret |-> rest.ret,
              bytes |-> DictGet(dict_unicode_to_spectrum_hisoft_gen_asm, <<line_text[i]>>, Utf8(line_text[i]))
                        \o rest.bytes]

\* lines 847-868: one line of the input. The result is [ret, line_number,
\* bytes]: the bytes written to outfile and line_number as the pass leaves it.
U2AsmLineBody(line, line_number, line_number_inc) ==
    LET stripped == RStrip(line)
        m        == RegexLineNumber(stripped)
        number   == IF m.matched THEN IntOf(m.group1) ELSE line_number
        text     == IF m.matched THEN m.group2 ELSE stripped
        enc      == EncodeLine(text, 1)
    IN  IF m.matched /\ IntRaises(m.group1)
        THEN [ret |-> "ValueError", line_number |-> line_number, bytes |-> <<>>]
        ELSE IF ~PackFits(number, 2)
        THEN [ret |-> "struct.error", line_number |-> number, bytes |-> <<>>]
        ELSE IF enc.ret # "None"
        THEN [ret |-> enc.ret, line_number |-> number, bytes |-> PackH(number) \o enc.bytes]
        ELSE [ret |-> "None", line_number |-> number + LineNumberInc(m, line_number_inc),
              bytes |-> PackH(number) \o enc.bytes \o <<13>>]

\* the header of an empty file written in the place of the zeros
U2AsmPlaceholder_Encoded(prepend_plus3dos_header) ==
    IF prepend_plus3dos_header THEN P3Encode(P3Init(0)).bytes ELSE <<>>

\* lines 830-835: 128 zero bytes written where the +3DOS header will be
U2AsmPlaceholder(prepend_plus3dos_header) ==
    IF prepend_plus3dos_header THEN LJust(<<>>, HEADER_LENGTH, 0) ELSE <<>>

\* the rewritten header counting the soft-EOF byte in its total length
U2AsmTrailer_CountSoftEof(file, prepend_plus3dos_header, append_soft_eof) ==
    LET body   == IF append_soft_eof THEN file \o SOFT_EOF_BYTE ELSE file
        sub    == set_type_code_or_screen(P3Init(0).basic_header, CODE_DEFAULT_ADDRESS)
        p      == set_file_length([P3Init(0) EXCEPT !.basic_header = sub.obj], Len(body) - HEADER_LENGTH)
        e      == P3Encode(p)
    IN  IF ~prepend_plus3dos_header THEN [ret |-> "None", file |-> body, pos |-> Len(body)]
        ELSE IF sub.ret # "None" THEN [ret |-> sub.ret, file |-> body, pos |-> Len(body)]
        ELSE IF e.ret # "bytes" THEN [ret |-> e.ret, file |-> body, pos |-> Len(body)]
        ELSE [ret |-> "None", file |-> e.bytes \o PySliceFrom(body, Len(e.bytes)), pos |-> Len(e.bytes)]

\* lines 870-883: the soft-EOF and the rewritten +3DOS header. The result is
\* [ret, file, pos]: the output file and its write position.
U2AsmTrailer(file, prepend_plus3dos_header, append_soft_eof) ==
    LET body   == IF append_soft_eof THEN file \o SOFT_EOF_BYTE ELSE file
        length == IF append_soft_eof THEN Len(body) - 1 ELSE Len(body)
        sub    == set_type_code_or_screen(P3Init(0).basic_header, CODE_DEFAULT_ADDRESS)
        p      == set_file_length([P3Init(0) EXCEPT !.basic_header = sub.obj], length - HEADER_LENGTH)
        e      == P3Encode(p)
    IN  IF ~prepend_plus3dos_header THEN [ret |-> "None", file |-> body, pos |-> Len(body)]
        ELSE IF sub.ret # "None" THEN [ret |-> sub.ret, file |-> body, pos |-> Len(body)]
        ELSE IF e.ret # "bytes" THEN [ret |-> e.ret, file |-> body, pos |-> Len(body)]
        ELSE [ret |-> "None", file |-> e.bytes \o PySliceFrom(body, Len(e.bytes)), pos |-> Len(e.bytes)]

\* lines 885-895: the optional tape header file, made from the base name of
\* the output file and outfile.tell(). The result is [ret, bytes].
U2AsmTapeHeader(base_name, file_length) ==
    LET made == set_type_code_or_screen(
                    SfhInit(TAPE_HEADER_TYPE, PySlice(base_name, 0, FILE_NAME_MAX_LENGTH), file_length),
                    CODE_DEFAULT_ADDRESS)
    IN  IF made.ret # "None" THEN [ret |-> made.ret, bytes |-> <<>>]
        ELSE IF SfhEncode(made.obj).ret # "bytes" THEN [ret |-> SfhEncode(made.obj).ret, bytes |-> <<>>]
        ELSE [ret |-> "None", bytes |-> SfhEncode(made.obj).bytes]

----------------------------------------------------------------------------
\* The values the caller passes

FileLengths == {0, 5, 65536}
StartLines == {BASIC_NO_AUTO_START, 10000}
ProgLengths == {7}
\* a letter, a digit, and a letter that UTF-8 encodes in two bytes
ArrayNames == {<<97>>, <<49>>, <<945>>}
LoadAddresses == {CODE_DEFAULT_ADDRESS}
\* a name of 3 characters and one of 11
FileNames == {<<32, 97, 98>>, <<48, 49, 50, 51, 52, 53, 54, 55, 56, 57, 65>>}
\* the two header types and a value that is neither
HeaderTypes == {TAPE_HEADER_TYPE, PLUS3_BASIC_HEADER_TYPE, 2}
AutoStartInputs == {0, 1, 9999, 10000, 32768, 32769}

\* header_bytes with bit number bit of byte number i (from 0) inverted
FlipBit(header_bytes, i, bit) ==
    [header_bytes EXCEPT ![i + 1] = XorByte(header_bytes[i + 1], 2 ^ bit)]

\* the bits the caller inverts in a record it has just encoded
FlipInputs == {0, 9, 22, HEADER_LENGTH - 2} \X {0, 7}

\* a tape header as extracted with its leading marker and trailing XOR byte
Wrap(marker, h17, xor) == <<marker>> \o h17 \o <<xor>>

\* hand-made 8-byte +3 BASIC headers and 17-byte tape headers
Sub8(type, length, f1, f2, pad) == <<type>> \o PackH(length) \o PackH(f1) \o PackH(f2) \o <<pad>>
Tape17(type, length, f1, f2) ==
    <<type>> \o LJust(<<97, 98>>, FILE_NAME_MAX_LENGTH, 32) \o PackH(length) \o PackH(f1) \o PackH(f2)

Sub8Inputs ==
    { Sub8(TYPE_BASIC_PROGRAM, 5, a, 7, 0) : a \in AutoStartInputs }
    \cup { Sub8(TYPE_NUMERIC_ARRAY, 5, 97 * 256, 0, 0), Sub8(TYPE_CHAR_ARRAY, 5, 36 * 256, 0, 0),
           Sub8(TYPE_CODE_OR_SCREEN, 5, CODE_DEFAULT_ADDRESS, 0, 0),
           Sub8(4, 5, 0, 0, 0), Sub8(255, 0, 0, 0, 0), Sub8(0, 0, 0, 0, 1) }

Tape17Inputs ==
    { Tape17(TYPE_BASIC_PROGRAM, 5, a, 7) : a \in {0, 10000, BASIC_NO_AUTO_START} }
    \cup { Tape17(TYPE_CODE_OR_SCREEN, 5, CODE_DEFAULT_ADDRESS, 32768), Tape17(4, 5, 0, 0) }

\* a 128-byte record with the signature and a correct checksum
MkP3Record(issue, version, total, sub8) ==
    LET body == LJust(HEADER_SIGNATURE \o <<issue, version>> \o PackI(total) \o sub8,
                      HEADER_LENGTH - 1, 0)
    IN  body \o <<SumBytes(body) % 256>>

P3Sub8Inputs ==
    { Sub8(TYPE_BASIC_PROGRAM, 5, BASIC_NO_AUTO_START, 7, 0), Sub8(TYPE_BASIC_PROGRAM, 5, 0, 7, 0),
      Sub8(TYPE_NUMERIC_ARRAY, 5, 97 * 256, 0, 0),
      Sub8(TYPE_CODE_OR_SCREEN, 72, CODE_DEFAULT_ADDRESS, 0, 0),
      Sub8(4, 5, 0, 0, 0), Sub8(0, 0, 0, 0, 0) }

P3CraftedInputs == { MkP3Record(2, 3, 200, s) : s \in P3Sub8Inputs }

WrappedInputs == { Wrap(0, h, XorBytes(h)) : h \in Tape17Inputs }
BadXorInputs == { Wrap(0, h, XorByte(XorBytes(h), 1)) : h \in Tape17Inputs }
BadMarkerInputs == { Wrap(255, h, XorBytes(h)) : h \in Tape17Inputs }

Zeros(n) == LJust(<<>>, n, 0)

Encoded(name) == op = name /\ ret = "bytes"

\* the byte strings the caller can hand to Plus3Dos_File_Header.decode
P3Args(kind) ==
    CASE kind = "encoded"  -> IF Encoded("Plus3Dos_File_Header.encode") THEN {out} ELSE {}
      [] kind = "flipped"  -> IF Encoded("Plus3Dos_File_Header.encode")
                              THEN { FlipBit(out, f[1], f[2]) : f \in FlipInputs }
                              ELSE {}
      [] kind = "wronglen" -> {Zeros(HEADER_LENGTH - 1)}
                              \cup (IF Encoded("Plus3Dos_File_Header.encode")
                                    THEN {PySlice(out, 0, HEADER_LENGTH - 1), out \o <<0>>} ELSE {})
      [] kind = "zeros"    -> {Zeros(HEADER_LENGTH)}
      [] kind = "crafted"  -> P3CraftedInputs

P3ArgKinds == {"encoded", "flipped", "wronglen", "zeros", "crafted"}

\* the byte strings the caller can hand to Spectrum_File_Header.decode
SfhArgs(kind) ==
    CASE kind = "encoded"   -> IF Encoded("Spectrum_File_Header.encode") THEN {out} ELSE {}
      [] kind = "wrapped"   -> (IF Encoded("Spectrum_File_Header.encode") /\ Len(out) = TAPE_HEADER_LENGTH
                                THEN {Wrap(0, out, XorBytes(out))} ELSE {})
                               \cup WrappedInputs
      [] kind = "badxor"    -> BadXorInputs
      [] kind = "badmarker" -> BadMarkerInputs
      [] kind = "zeros"     -> {Zeros(PLUS3_BASIC_HEADER_LENGTH), Zeros(TAPE_HEADER_LENGTH),
                                Zeros(TAPE_HEADER_LENGTH + 2)}
      [] kind = "wronglen"  -> {<<>>, Zeros(PLUS3_BASIC_HEADER_LENGTH - 1), Zeros(TAPE_HEADER_LENGTH + 1)}
      [] kind = "crafted"   -> Sub8Inputs \cup Tape17Inputs

SfhArgKinds == {"encoded", "wrapped", "badxor", "badmarker", "zeros", "wronglen", "crafted"}

----------------------------------------------------------------------------
\* The files and options the command line hands to the listing functions

\* the most line records in a generated file, and the most lines in a generated text
MaxRecords == 2
MaxLines == 2

\* sequences of 0 to n elements of set, concatenated
RECURSIVE ConcatsUpTo(_, _)
ConcatsUpTo(set, n) ==
    IF n = 0 THEN {<<>>}
    ELSE ConcatsUpTo(set, n - 1) \cup { a \o b : a \in ConcatsUpTo(set, n - 1), b \in set }

\* a tokenized line record: the line number (big-endian), the length of the
\* content (little-endian), the content
BasRecord(hi, lo, content) == <<hi, lo>> \o PackH(Len(content)) \o content

\* the line record 0x01 0x00, 0x06 0x00, PRINT, 0x0D
PrintRecord == <<1, 0, 6, 0, 245, 13>>

\* a line whose number literal holds 0x0D, 0x1A and 0x0E, and the same line
\* with no number literal
NumberRecord == BasRecord(0, 1, <<65, 14, 13, 26, 14, 1, 2, 66, 13>>)
NoNumberRecord == BasRecord(0, 1, <<65, 66, 13>>)

\* the first VARS line number, 0x4000
VarsRecord == BasRecord(64, 0, <<245, 13>>)

\* also: a tab byte, a token that differs between 48K and 128K and a
\* soft-EOF byte in mid-line; a line with no end; line numbers with a 0x1A byte
BasRecords ==
    { PrintRecord, NumberRecord, VarsRecord,
      BasRecord(0, 1, <<6, 163, 26, 66, 13>>), BasRecord(0, 2, <<65>>),
      BasRecord(26, 1, <<245, 13>>), BasRecord(0, 26, <<245, 13>>) }

BasPayloads == ConcatsUpTo(BasRecords, MaxRecords) \cup {NoNumberRecord}

\* the assembly line record 0x0A 0x00 'LD A,1' 0x0D
LdRecord == <<10, 0, 76, 68, 32, 65, 44, 49, 13>>

\* also: a soft-EOF byte in mid-line; the bytes 0x06 and 0x09 and a graphics
\* byte; line numbers with a 0x1A byte
AsmRecords ==
    { LdRecord, <<10, 0, 65, 26, 66, 13>>, <<11, 0, 6, 9, 163, 13>>,
      <<26, 1, 78, 79, 80, 13>>, <<0, 26, 78, 79, 80, 13>> }

\* a second line number that equals the count of the bytes from it on; a
\* line with no end
AsmExtraPayloads == { <<1, 0, 65, 13, 5, 0, 66, 67, 13>>, <<10, 0, 65>> }

\* payloads with and without a lead field: the count of the bytes after the
\* field, or that count and the 2 bytes of the field
AsmPayloads ==
    LET plain == ConcatsUpTo(AsmRecords, MaxRecords)
    IN  plain \cup { PackH(Len(b)) \o b : b \in plain } \cup { PackH(Len(b) + 2) \o b : b \in plain }
        \cup AsmExtraPayloads

\* a +3DOS header as Plus3Dos_File_Header.encode() writes it
ValidHeader(total, sub8) == MkP3Record(1, 0, total, sub8)
ZeroedSub == Zeros(PLUS3_BASIC_HEADER_LENGTH)
ProgramSub(file_length, prog_length) ==
    Sub8(TYPE_BASIC_PROGRAM, file_length, BASIC_NO_AUTO_START, prog_length, 0)

\* a payload as it is, after a header with a zeroed sub-header, after the
\* header of a program of that length, and after headers whose lengths end
\* 3 bytes before the payload does
WithHeaders(b) ==
    { b,
      ValidHeader(HEADER_LENGTH + Len(b), ZeroedSub) \o b,
      ValidHeader(HEADER_LENGTH + Len(b), ProgramSub(Len(b), Len(b))) \o b }
    \cup (IF Len(b) >= 3
          THEN { ValidHeader(HEADER_LENGTH + Len(b), ProgramSub(Len(b), Len(b) - 3)) \o b,
                 ValidHeader(HEADER_LENGTH + Len(b) - 3, ZeroedSub) \o b }
          ELSE {})

BasFiles == UNION { WithHeaders(b) : b \in BasPayloads }
AsmFiles == UNION { WithHeaders(b) : b \in AsmPayloads }

\* tape header files of a program of n bytes: the 17 bytes, and the 19 bytes
\* of the tape block (marker, header, check byte)
TapeHeadersFor(n) ==
    LET h == Tape17(TYPE_BASIC_PROGRAM, n, BASIC_NO_AUTO_START, n)
    IN  { [given |-> TRUE, bytes |-> h], [given |-> TRUE, bytes |-> Wrap(0, h, XorBytes(h))],
          [given |-> TRUE, bytes |-> <<>>] }

\* the files decoded with a tape header beside them
BasTapeFiles == BasRecords

\* text lines: numbered, not numbered, digits with no word boundary after
\* them (an ASCII letter, and the word character U+00B2 outside ASCII), a
\* number too large for 16 bits, a tab, a character of the table and one
\* that is not, an empty line
TextLines ==
    { <<50, 48, 32, 78, 79, 80>>, <<72, 65, 76, 84>>, <<32, 53, 32, 32, 32, 88, 9, 89>>, <<50, 48, 78>>,
      <<49, 50, 178>>, <<55, 48, 48, 48, 48, 32, 65>>, <<54, 53, 53, 51, 48>>, <<9608, 233>>, <<>> }

\* a number of one digit more than int() converts
LongNumber == [i \in 1..(INT_MAX_STR_DIGITS + 1) |-> 48]

\* texts with such a number as a line's prefix: alone, and after a line
\* that was written
LongTexts ==
    { LongNumber \o <<10>>,
      <<72, 65, 76, 84, 10>> \o LongNumber \o <<32, 88, 10, 69, 78, 68, 10>> }

\* texts whose last line does and does not end in "\n"
Texts ==
    LET ended == ConcatsUpTo({ l \o <<10>> : l \in TextLines }, MaxLines)
    IN  ended \cup { SubSeq(x, 1, Len(x) - 1) : x \in ended \ {<<>>} } \cup LongTexts

\* base names of the output file: "a.asm", and one whose first character
\* is encoded in two bytes
BaseNames == { <<97, 46, 97, 115, 109>>, <<233, 46, 97, 115, 109>> }

\* lines 1092-1094: the tape header file excludes the two disk options
CommandLineAllows(tape_header_file, prepend_plus3dos_header, use_soft_eof) ==
    ~(tape_header_file /\ (prepend_plus3dos_header \/ use_soft_eof))

----------------------------------------------------------------------------
\* The caller's calls

NoTapeHeader == [given |-> FALSE, bytes |-> <<>>]
NoOptions ==
    [ use_spectrum48k_tokens  |-> FALSE,
      include_line_numbers    |-> FALSE,
      stop_at_soft_eof        |-> FALSE,
      prepend_plus3dos_header |-> FALSE,
      append_soft_eof         |-> FALSE,
      write_tape_header       |-> FALSE,
      base_name               |-> <<>> ]

\* no listing function was called yet
ListingIdle ==
    /\ pc = "idle"
    /\ infile = <<>>
    /\ tape_header = NoTapeHeader
    /\ opts = NoOptions
    /\ inpos = 0
    /\ next_number = 0
    /\ outfile = <<>>
    /\ outpos = 0
    /\ headerfile = <<>>

NoObjects == [p3 |-> P3Init(0), hdr |-> SfhInit(TAPE_HEADER_TYPE, <<>>, 0), built |-> FALSE]
Snapshot == [p3 |-> p3, hdr |-> hdr, built |-> built]

\* the state with no header object in the caller's hands
HeaderIdle ==
    /\ cur = "p3"
    /\ p3 = P3Init(0)
    /\ hdr = SfhInit(TAPE_HEADER_TYPE, <<>>, 0)
    /\ built = TRUE
    /\ arg = <<>>
    /\ argkind = "none"
    /\ argn = 0
    /\ out = <<>>
    /\ src = NoObjects

\* the caller made arg from the bytes encode() had just returned
FromEncode(kind) == kind \in {"encoded", "flipped", "wrapped"} /\ op \in {"Plus3Dos_File_Header.encode", "Spectrum_File_Header.encode"}

Init ==
    /\ cur = "p3"
    /\ p3 = P3Init(0)
    /\ hdr = SfhInit(TAPE_HEADER_TYPE, <<>>, 0)
    /\ built = TRUE
    /\ op = "Plus3Dos_File_Header"
    /\ arg = <<>>
    /\ argkind = "none"
    /\ argn = 0
    /\ ret = "None"
    /\ out = <<>>
    /\ src = NoObjects
    /\ ListingIdle

\* what every call but encode and decode leaves behind
Plain(name, n, r) ==
    /\ op' = name
    /\ argn' = n
    /\ ret' = r
    /\ arg' = <<>>
    /\ argkind' = "none"
    /\ out' = <<>>
    /\ src' = NoObjects
    /\ UNCHANGED lvars

\* Plus3Dos_File_Header( file_length )
NewP3(file_length) ==
    /\ cur' = "p3"
    /\ p3' = P3Init(file_length)
    /\ hdr' = SfhInit(TAPE_HEADER_TYPE, <<>>, 0)
    /\ built' = TRUE
    /\ Plain("Plus3Dos_File_Header", file_length, "None")

\* Spectrum_File_Header( header_type, file_name, file_length ): when an
\* assertion of __init__ fails no object is made and the caller holds what
\* it held
NewSfh(header_type, file_name, file_length) ==
    IF SfhInitAsserts(header_type, file_name)
    THEN /\ cur' = "sfh"
         /\ p3' = P3Init(0)
         /\ hdr' = SfhInit(header_type, file_name, file_length)
         /\ built' = TRUE
         /\ Plain("Spectrum_File_Header", file_length, "None")
    ELSE /\ Plain("Spectrum_File_Header", file_length, "AssertionError")
         /\ UNCHANGED <<cur, p3, hdr, built>>

\* plus3dos_header.set_file_length( file_length )
SetFileLength(file_length) ==
    /\ cur = "p3"
    /\ p3' = set_file_length(p3, file_length)
    /\ Plain("set_file_length", file_length, "None")
    /\ UNCHANGED <<cur, hdr, built>>

\* the Spectrum_File_Header the caller's setters act on
Live == IF cur = "p3" THEN p3.basic_header ELSE hdr

\* a setter of the live Spectrum_File_Header returned or raised
Setter(name, r) ==
    /\ p3' = IF cur = "p3" THEN [p3 EXCEPT !.basic_header = r.obj] ELSE p3
    /\ hdr' = IF cur = "sfh" THEN r.obj ELSE hdr
    /\ built' = (built /\ r.ret = "None")
    /\ Plain(name, 0, r.ret)
    /\ UNCHANGED cur

SetTypeBasicProgram(start_line, offset_to_prog) ==
    Setter("set_type_basic_program", set_type_basic_program(Live, start_line, offset_to_prog))

SetTypeNumericArray(name) ==
    Setter("set_type_numeric_array", set_type_numeric_array(Live, name))

SetTypeCharArray(name) ==
    Setter("set_type_char_array", set_type_char_array(Live, name))

SetTypeCodeOrScreen(load_address) ==
    Setter("set_type_code_or_screen", set_type_code_or_screen(Live, load_address))

\* header_bytes = plus3dos_header.encode()
P3EncodeCall ==
    /\ cur = "p3"
    /\ op' = "Plus3Dos_File_Header.encode"
    /\ ret' = P3Encode(p3).ret
    /\ out' = P3Encode(p3).bytes
    /\ src' = Snapshot
    /\ argn' = 0
    /\ arg' = <<>>
    /\ argkind' = "none"
    /\ UNCHANGED <<cur, p3, hdr, built>>
    /\ UNCHANGED lvars

\* header_bytes = header.encode()
SfhEncodeCall ==
    /\ cur = "sfh"
    /\ op' = "Spectrum_File_Header.encode"
    /\ ret' = SfhEncode(hdr).ret
    /\ out' = SfhEncode(hdr).bytes
    /\ src' = Snapshot
    /\ argn' = 0
    /\ arg' = <<>>
    /\ argkind' = "none"
    /\ UNCHANGED <<cur, p3, hdr, built>>
    /\ UNCHANGED lvars

\* what a decode call leaves behind
Decoded(name, kind, header_bytes, r) ==
    /\ op' = name
    /\ ret' = r
    /\ arg' = header_bytes
    /\ argkind' = kind
    /\ argn' = 0
    /\ out' = <<>>
    /\ src' = IF FromEncode(kind) THEN src ELSE NoObjects
    /\ UNCHANGED lvars

\* plus3dos_header.decode( header_bytes ) on the header the caller holds
P3DecodeCall(kind, header_bytes) ==
    /\ cur = "p3"
    /\ LET r == P3Decode(p3, header_bytes)
       IN  /\ p3' = r.obj
           /\ built' = (built /\ r.ret # "True")
           /\ Decoded("Plus3Dos_File_Header.decode", kind, header_bytes, r.ret)
    /\ UNCHANGED <<cur, hdr>>

\* lines 731-735 and 946-950: the listing decoders make a new header and decode into it
P3ReadHeader(kind, header_bytes) ==
    /\ LET r == P3Decode(P3Init(0), header_bytes)
       IN  /\ p3' = r.obj
           /\ built' = (r.ret # "True")
           /\ Decoded("Plus3Dos_File_Header().decode", kind, header_bytes, r.ret)
    /\ cur' = "p3"
    /\ hdr' = SfhInit(TAPE_HEADER_TYPE, <<>>, 0)

\* header.decode( header_bytes ) on the header the caller holds
SfhDecodeCall(kind, header_bytes) ==
    /\ cur = "sfh"
    /\ LET r == SfhDecode(hdr, header_bytes)
       IN  /\ hdr' = r.obj
           /\ Decoded("Spectrum_File_Header.decode", kind, header_bytes, r.ret)
    /\ built' = FALSE
    /\ UNCHANGED <<cur, p3>>

Next ==
    \/ \E n \in FileLengths : NewP3(n)
    \/ \E t \in HeaderTypes, f \in FileNames, n \in FileLengths : NewSfh(t, f, n)
    \/ \E n \in FileLengths : SetFileLength(n)
    \/ \E s \in StartLines, l \in ProgLengths : SetTypeBasicProgram(s, l)
    \/ \E a \in ArrayNames : SetTypeNumericArray(a)
    \/ \E a \in ArrayNames : SetTypeCharArray(a)
    \/ \E a \in LoadAddresses : SetTypeCodeOrScreen(a)
    \/ P3EncodeCall
    \/ SfhEncodeCall
    \/ \E k \in P3ArgKinds : \E b \in P3Args(k) : P3DecodeCall(k, b)
    \/ \E k \in {"encoded", "crafted", "zeros"} : \E b \in P3Args(k) : P3ReadHeader(k, b)
    \/ \E k \in SfhArgKinds : \E b \in SfhArgs(k) : SfhDecodeCall(k, b)

Spec == Init /\ [][Next]_vars

----------------------------------------------------------------------------
\* The listing functions as the command line calls them

ListingInit ==
    /\ HeaderIdle
    /\ ListingIdle
    /\ op = "none"
    /\ ret = "None"

\* what a call of one of the two decoders leaves behind
ListingDecoded(name, file, th, o, r) ==
    /\ op = "none"
    /\ CommandLineAllows(th.given, FALSE, o.stop_at_soft_eof)
    /\ pc' = "idle"
    /\ op' = name
    /\ infile' = file
    /\ tape_header' = th
    /\ opts' = o
    /\ ret' = r.ret
    /\ outfile' = r.out
    /\ inpos' = r.pos
    /\ next_number' = 0
    /\ outpos' = Len(r.out)
    /\ headerfile' = <<>>
    /\ UNCHANGED hvars

\* spectrum_sinclair_bas_to_unicode( ... )
BasToUnicode(file, th, use_spectrum48k_tokens, stop_at_soft_eof) ==
    ListingDecoded("spectrum_sinclair_bas_to_unicode", file, th,
                   [NoOptions EXCEPT !.use_spectrum48k_tokens = use_spectrum48k_tokens,
                                     !.stop_at_soft_eof = stop_at_soft_eof],
                   spectrum_sinclair_bas_to_unicode(file, th, use_spectrum48k_tokens, stop_at_soft_eof))

\* spectrum_hisoft_gen_asm_to_unicode( ... )
AsmToUnicode(file, include_line_numbers, stop_at_soft_eof) ==
    ListingDecoded("spectrum_hisoft_gen_asm_to_unicode", file, NoTapeHeader,
                   [NoOptions EXCEPT !.include_line_numbers = include_line_numbers,
                                     !.stop_at_soft_eof = stop_at_soft_eof],
                   spectrum_hisoft_gen_asm_to_unicode(file, include_line_numbers, stop_at_soft_eof))

\* unicode_to_spectrum_hisoft_gen_asm( ... ), lines 822-835: the files are
\* opened and the placeholder of the +3DOS header is written
U2AsmOpen(text, base_name, write_tape_header, prepend_plus3dos_header, append_soft_eof) ==
    /\ op = "none"
    /\ CommandLineAllows(write_tape_header, prepend_plus3dos_header, append_soft_eof)
    /\ pc' = "u2asm"
    /\ op' = "unicode_to_spectrum_hisoft_gen_asm"
    /\ ret' = "running"
    /\ infile' = text
    /\ tape_header' = NoTapeHeader
    /\ opts' = [NoOptions EXCEPT !.prepend_plus3dos_header = prepend_plus3dos_header,
                                 !.append_soft_eof = append_soft_eof,
                                 !.write_tape_header = write_tape_header,
                                 !.base_name = base_name]
    /\ inpos' = 0
    /\ next_number' = 10
    /\ outfile' = U2AsmPlaceholder(prepend_plus3dos_header)
    /\ outpos' = Len(U2AsmPlaceholder(prepend_plus3dos_header))
    /\ headerfile' = <<>>
    /\ UNCHANGED hvars

\* lines 838-868: one pass of the loop, for a line that readline() returned
U2AsmLine ==
    /\ pc = "u2asm"
    /\ Len(ReadLine(infile, inpos)) >= 1
    /\ LET r == U2AsmLineBody(ReadLine(infile, inpos), next_number, 10)
       IN  /\ outfile' = outfile \o r.bytes
           /\ outpos' = outpos + Len(r.bytes)
           /\ next_number' = r.line_number
           /\ ret' = IF r.ret = "None" THEN "running" ELSE r.ret
           /\ pc' = IF r.ret = "None" THEN "u2asm" ELSE "idle"
    /\ inpos' = LineEnd(infile, inpos)
    /\ UNCHANGED <<op, infile, tape_header, opts, headerfile>>
    /\ UNCHANGED hvars

\* lines 843-845 and 870-895: readline() returned nothing; the function ends
U2AsmClose ==
    /\ pc = "u2asm"
    /\ Len(ReadLine(infile, inpos)) < 1
    /\ LET t == U2AsmTrailer(outfile, opts.prepend_plus3dos_header, opts.append_soft_eof)
           h == U2AsmTapeHeader(opts.base_name, t.pos)
       IN  /\ outfile' = t.file
           /\ outpos' = t.pos
           /\ headerfile' = IF t.ret = "None" /\ opts.write_tape_header THEN h.bytes ELSE <<>>
           /\ ret' = IF t.ret = "None" /\ opts.write_tape_header THEN h.ret ELSE t.ret
    /\ pc' = "idle"
    /\ UNCHANGED <<op, infile, tape_header, opts, inpos, next_number>>
    /\ UNCHANGED hvars

\* one run of the program calls one of the three functions
ListingNext ==
    \/ op = "none" /\ \E f \in BasFiles, k \in BOOLEAN, e \in BOOLEAN : BasToUnicode(f, NoTapeHeader, k, e)
    \/ op = "none" /\ \E f \in BasTapeFiles : \E th \in TapeHeadersFor(Len(f)) : BasToUnicode(f, th, FALSE, FALSE)
    \/ op = "none" /\ \E f \in AsmFiles, n \in BOOLEAN, e \in BOOLEAN : AsmToUnicode(f, n, e)
    \/ op = "none" /\ \E x \in Texts, b \in BaseNames, w \in BOOLEAN, p \in BOOLEAN, e \in BOOLEAN :
                         U2AsmOpen(x, b, w, p, e)
    \/ U2AsmLine
    \/ U2AsmClose

ListingSpec == ListingInit /\ [][ListingNext]_vars

----------------------------------------------------------------------------
\* Claims

DecodeOps == {"Plus3Dos_File_Header.decode", "Plus3Dos_File_Header().decode", "Spectrum_File_Header.decode"}

\* a Spectrum_File_Header left zeroed or set to one subtype by one setter
OneSubtype(h) ==
    \/ is_zeroed(h)
    \/ /\ h.file_type = TYPE_BASIC_PROGRAM
       /\ h.basic_automatic_start_line \in (1..9999) \cup {BASIC_NO_AUTO_START}
       /\ h.code_load_address = 0 /\ h.array_name = <<0>>
    \/ /\ h.file_type \in {TYPE_NUMERIC_ARRAY, TYPE_CHAR_ARRAY}
       /\ Len(h.array_name) = 1 /\ IsAlpha(h.array_name[1])
       /\ h.basic_automatic_start_line = 0 /\ h.basic_prog_length = 0 /\ h.code_load_address = 0
    \/ /\ h.file_type = TYPE_CODE_OR_SCREEN
       /\ h.basic_automatic_start_line = 0 /\ h.basic_prog_length = 0 /\ h.array_name = <<0>>

\* C1: decoding the 128 bytes that encode() returned for a header built by
\* the constructor and setters, into a new header, returns true and gives
\* back the issue number, version number, total length and sub-header.
C1_RoundTrip ==
    (op = "Plus3Dos_File_Header().decode" /\ argkind = "encoded" /\ src.built
        /\ OneSubtype(src.p3.basic_header))
    => /\ ret = "True"
       /\ p3.issue_number = src.p3.issue_number
       /\ p3.version_number = src.p3.version_number
       /\ p3.file_length_with_header = src.p3.file_length_with_header
       /\ p3.basic_header = src.p3.basic_header

\* C2: whenever Plus3Dos_File_Header.encode returns a record, the record has
\* 128 bytes and its last byte is the sum of the 127 before it, modulo 256.
C2_EncodeChecksum ==
    (op = "Plus3Dos_File_Header.encode" /\ ret = "bytes")
    => /\ Len(out) = 128
       /\ out[128] = SumRange(out, 1, 127) % 256

C2_Witness ==
    /\ op = "Plus3Dos_File_Header.encode" /\ ret = "bytes"
    /\ ~is_zeroed(p3.basic_header)
    /\ p3.file_length_with_header = 128 + 5
    /\ SumRange(out, 1, 127) >= 256

\* the 1016 records that differ from header_bytes in one bit of bytes 0..126
AllFlips(header_bytes) ==
    { FlipBit(header_bytes, i, bit) : i \in 0..126, bit \in 0..7 }

\* C3: a record made by inverting one bit in bytes 0..126 of a record that
\* decode accepts is rejected: decode returns false.  Checked for the bits the
\* caller inverts in encoded records, and for all 1016 bits of every
\* hand-made record that a new header accepts.
C3_FlippedRejected ==
    /\ (op = "Plus3Dos_File_Header.decode" /\ argkind = "flipped") => ret = "False"
    /\ (op = "Plus3Dos_File_Header().decode" /\ argkind = "crafted" /\ ret = "True")
       => \A b \in AllFlips(arg) : P3Decode(P3Init(0), b).ret = "False"

C3_Witness ==
    /\ op = "Plus3Dos_File_Header.decode" /\ argkind = "flipped" /\ ret = "False"
    /\ P3Decode(P3Init(0), P3Encode(src.p3).bytes).ret = "True"
    /\ \E f \in {22, 126} \X {7} : arg = FlipBit(P3Encode(src.p3).bytes, f[1], f[2])

\* C4: every decode call returns a boolean, whatever bytes it is given; no
\* exception leaves it.
C4_DecodeReturnsBool ==
    op \in DecodeOps => ret \in {"True", "False"}

\* C5 as claimed: whenever Spectrum_File_Header.decode returns false, the
\* header is zeroed afterwards.
C5_FailedDecodeZeroed ==
    (op = "Spectrum_File_Header.decode" /\ ret = "False") => is_zeroed(hdr)

\* C5: when Spectrum_File_Header.decode returns false without having parsed
\* the fields (wrong input length, or a 19-byte wrapped tape form rejected by
\* its marker / XOR check) the header is zeroed; when it returns false for an
\* input of the header's length, the header holds the fields parsed from it.
C5_FailedDecodeState ==
    (op = "Spectrum_File_Header.decode" /\ ret = "False")
    => IF Len(arg) # header_length(hdr)
       THEN is_zeroed(hdr) /\ hdr.file_name = <<>>
       ELSE /\ hdr.header_type = PLUS3_BASIC_HEADER_TYPE
            /\ hdr.file_type = arg[1]
            /\ hdr.file_length = arg[2] + (256 * arg[3])
            /\ hdr.basic_automatic_start_line = (IF arg[1] = 0 THEN arg[4] + (256 * arg[5]) ELSE 0)
            /\ hdr.basic_prog_length = (IF arg[1] = 0 THEN arg[6] + (256 * arg[7]) ELSE 0)
            /\ hdr.code_load_address = 0
            /\ hdr.array_name = <<0>>

C5_Witness ==
    /\ op = "Spectrum_File_Header.decode" /\ ret = "False"
    /\ Len(arg) = header_length(hdr)
    /\ hdr.file_length = 5
    /\ hdr.basic_automatic_start_line = 10000

\* C6: decoding the wrapped form [0x00] + H + [XOR of H] of a 17-byte tape
\* header H gives the same result and the same fields as decoding H.
C6_WrappedSameAsDirect ==
    (op = "Spectrum_File_Header.decode" /\ argkind = "wrapped"
        /\ hdr.header_type = TAPE_HEADER_TYPE)
    => LET direct == SfhDecode(SfhInit(TAPE_HEADER_TYPE, <<>>, 0), PySlice(arg, 1, Len(arg) - 1))
       IN  ret = direct.ret /\ hdr = direct.obj

\* C7: a Plus3Dos_File_Header.decode call that returns false leaves every
\* field of the header as it was before the call.
C7_FailedDecodeKeepsFields ==
    [][ /\ (op' = "Plus3Dos_File_Header.decode" /\ ret' = "False") => p3' = p3
        /\ (op' = "Plus3Dos_File_Header().decode" /\ ret' = "False") => p3' = P3Init(0) ]_vars

C7_Witness ==
    /\ op = "Plus3Dos_File_Header.decode" /\ ret = "False"
    /\ arg = MkP3Record(2, 3, 200, Sub8(TYPE_BASIC_PROGRAM, 5, 0, 7, 0))
    /\ p3.file_length_with_header = 128 + 5
    /\ p3.basic_header.file_type = TYPE_CODE_OR_SCREEN

\* C8: for a Program-subtype header of the header's length, decode returns
\* true exactly when autoStartLine is in 1..9999 or is 0x8000, and then the
\* header holds that autoStartLine; otherwise it returns false.
C8_AutoStartAccepted ==
    (op = "Spectrum_File_Header.decode" /\ Len(arg) = header_length(hdr)
        /\ arg[1] = TYPE_BASIC_PROGRAM /\ arg # Zeros(Len(arg)))
    => LET at == IF hdr.header_type = TAPE_HEADER_TYPE THEN 14 ELSE 4
           a  == arg[at] + (256 * arg[at + 1])
       IN  IF a \in (1..9999) \cup {BASIC_NO_AUTO_START}
           THEN ret = "True" /\ hdr.basic_automatic_start_line = a
           ELSE ret = "False"

\* C9: decoding an all-zero header (8 bytes for the +3 layout, 17 or 19 bytes
\* for the tape layout) returns true and leaves the header zeroed.
C9_ZeroHeaderAccepted ==
    (op = "Spectrum_File_Header.decode" /\ argkind = "zeros"
        /\ Len(arg) \in (IF hdr.header_type = TAPE_HEADER_TYPE
                         THEN {TAPE_HEADER_LENGTH, TAPE_HEADER_LENGTH + 2}
                         ELSE {PLUS3_BASIC_HEADER_LENGTH}))
    => ret = "True" /\ is_zeroed(hdr)

\* C10 as claimed: after construction, after set_file_length and setters that
\* returned, and after a decode that returned true, file_length_with_header
\* is 128 plus the sub-header's file_length.
C10_TotalIs128PlusPayload ==
    (cur = "p3" /\ ret \in {"None", "True"})
    => p3.file_length_with_header = 128 + p3.basic_header.file_length

\* C10: the constructor and set_file_length(n) leave file_length_with_header
\* = 128 + n; the constructor leaves the sub-header zeroed, and
\* set_file_length writes n to the sub-header's file_length only when the
\* sub-header is not zeroed, and otherwise leaves the sub-header as it is.
C10_SetFileLengthEffect ==
    [][ /\ op' = "Plus3Dos_File_Header"
           => p3'.file_length_with_header = 128 + argn' /\ is_zeroed(p3'.basic_header)
        /\ op' = "set_file_length"
           => /\ p3'.file_length_with_header = 128 + argn'
              /\ p3'.basic_header = IF is_zeroed(p3.basic_header)
                                    THEN p3.basic_header
                                    ELSE [p3.basic_header EXCEPT !.file_length = argn'] ]_vars

C10_Witness ==
    /\ op = "set_file_length" /\ argn = 5
    /\ p3.file_length_with_header = 133
    /\ p3.basic_header.file_type = TYPE_CODE_OR_SCREEN
    /\ p3.basic_header.file_length = 5

----------------------------------------------------------------------------
\* The character tables at work: one byte decoded as the two decoders decode
\* it, and the decoded text encoded as the encoders encode it.

\* the three tables a decoder translates with (lines 917-920 and 788-791)
DecodeTables ==
    { "dict_spectrum128_to_unicode", "dict_spectrum48_to_unicode",
      "dict_spectrum_hisoft_gen_asm_to_unicode" }

DecodeTable(name) ==
    IF name = "dict_spectrum128_to_unicode" THEN dict_spectrum128_to_unicode
    ELSE IF name = "dict_spectrum48_to_unicode" THEN dict_spectrum48_to_unicode
    ELSE dict_spectrum_hisoft_gen_asm_to_unicode

\* the two tables an encoder translates with (lines 489 and 864)
EncodeTables == { "dict_unicode_to_spectrum", "dict_unicode_to_spectrum_hisoft_gen_asm" }

EncodeTable(name) ==
    IF name = "dict_unicode_to_spectrum" THEN dict_unicode_to_spectrum
    ELSE dict_unicode_to_spectrum_hisoft_gen_asm

\* every byte decoded as itself, whatever the table holds
DecodeByte_Ascii(dict, byte) ==
    IF DecodeFails(byte) THEN [ret |-> "UnicodeDecodeError", text |-> <<>>]
    ELSE [ret |-> "None", text |-> byte]

\* lines 1018-1021 and 790-793: the table's entry, or byte.decode()
DecodeByte(dict, byte) ==
    IF DictHas(dict, byte) THEN [ret |-> "None", text |-> DictGet(dict, byte, <<>>)]
    ELSE IF DecodeFails(byte) THEN [ret |-> "UnicodeDecodeError", text |-> <<>>]
    ELSE [ret |-> "None", text |-> byte]

\* every character encoded by char.encode(), the table not consulted
RECURSIVE EncodeText_Utf8(_, _, _)
EncodeText_Utf8(dict, text, i) ==
    IF i > Len(text) THEN <<>>
    ELSE Utf8(text[i]) \o EncodeText_Utf8(dict, text, i + 1)

\* lines 489 and 864: dict.get( char, char.encode(CHARSET_UNICODE_CHAR) ) for
\* the characters of text from the i-th on
RECURSIVE EncodeText(_, _, _)
EncodeText(dict, text, i) ==
    IF i > Len(text) THEN <<>>
    ELSE DictGet(dict, <<text[i]>>, Utf8(text[i])) \o EncodeText(dict, text, i + 1)

\* one byte of a file is translated with the table called name
Decode(name, b) ==
    /\ op = "none"
    /\ op' = "decode"
    /\ argkind' = name
    /\ arg' = <<b>>
    /\ ret' = DecodeByte(DecodeTable(name), <<b>>).ret
    /\ outfile' = DecodeByte(DecodeTable(name), <<b>>).text
    /\ UNCHANGED <<cur, p3, hdr, built, argn, out, src>>
    /\ UNCHANGED <<pc, infile, tape_header, opts, inpos, next_number, outpos, headerfile>>

\* the decoded text is translated back with the table called name
Encode(name) ==
    /\ op = "decode" /\ ret = "None"
    /\ op' = name
    /\ out' = EncodeText(EncodeTable(name), outfile, 1)
    /\ UNCHANGED <<cur, p3, hdr, built, arg, argkind, argn, ret, src>>
    /\ UNCHANGED <<pc, infile, tape_header, opts, inpos, next_number, outfile, outpos, headerfile>>

CharsetInit == ListingInit

CharsetNext ==
    \/ op = "none" /\ \E name \in DecodeTables, b \in 0..255 : Decode(name, b)
    \/ \E name \in EncodeTables : Encode(name)

CharsetSpec == CharsetInit /\ [][CharsetNext]_vars

----------------------------------------------------------------------------
\* Claims about the listing functions

Bas == "spectrum_sinclair_bas_to_unicode"
Asm == "spectrum_hisoft_gen_asm_to_unicode"
U2Asm == "unicode_to_spectrum_hisoft_gen_asm"

\* the input file starts with a +3DOS header that decodes
HeaderValid == ReadPlus3DosHeader(infile).ret = "True"
HeaderOf(file) == ReadPlus3DosHeader(file).obj
Payload == IF HeaderValid THEN PySliceFrom(infile, HEADER_LENGTH) ELSE infile

\* the file of scenario 1 was decoded with the default token set: a valid
\* header with total length 128 + N and the N bytes of PrintRecord
C11_Case ==
    /\ op = Bas /\ ~opts.use_spectrum48k_tokens
    /\ HeaderValid
    /\ HeaderOf(infile).file_length_with_header = HEADER_LENGTH + Len(PrintRecord)
    /\ Payload = PrintRecord

\* C11 as claimed: the file of scenario 1 decodes to "   1 PRINT" and a newline.
C11_PrintLine1 ==
    C11_Case => ret = "None" /\ outfile = <<32, 32, 32, 49, 32, 80, 82, 73, 78, 84, 10>>

\* the sub-header does not lower the bound: it is zeroed, or a Program
\* sub-header with program length N
C11_SubHeader ==
    \/ is_zeroed(HeaderOf(infile).basic_header)
    \/ /\ HeaderOf(infile).basic_header.file_type = TYPE_BASIC_PROGRAM
       /\ HeaderOf(infile).basic_header.basic_prog_length = Len(PrintRecord)

\* C11: the file of scenario 1, with a sub-header that is zeroed or a Program
\* sub-header of program length N, decodes to " 256  PRINT " and a newline:
\* the line number 256 (0x01 0x00 big-endian) in 4 columns, one space, the
\* table's text " PRINT " with its two spaces, newline.
C11_PrintLine256 ==
    (C11_Case /\ C11_SubHeader)
    => ret = "None" /\ outfile = <<32, 50, 53, 54, 32, 32, 80, 82, 73, 78, 84, 32, 10>>

C11_Witness ==
    /\ C11_Case
    /\ HeaderOf(infile).basic_header.file_type = TYPE_BASIC_PROGRAM
    /\ HeaderOf(infile).basic_header.basic_prog_length = 6
    /\ outfile = <<32, 50, 53, 54, 32, 32, 80, 82, 73, 78, 84, 32, 10>>

\* the bound the assembly decoder starts with, the first 2-byte field of the
\* payload, and whether the output starts with that field as a line number
AsmBound == IF HeaderValid THEN HeaderOf(infile).file_length_with_header - HEADER_LENGTH ELSE Len(infile)
FirstField == UnpackH(PySlice(Payload, 0, 2))
FirstFieldEmitted == PySlice(outfile, 0, 8) = FormatD(FirstField, 6) \o <<32, 32>>

\* the assembly decoder ran with line numbers included and read a first field
C12_Case ==
    /\ op = Asm /\ opts.include_line_numbers /\ ret = "None"
    /\ AsmBound > 2 /\ Len(Payload) >= 2

LdLine == <<32, 32, 32, 32, 49, 48, 32, 32, 76, 68, 32, 65, 44, 49, 10>>

\* C12 as claimed: the first field is dropped exactly when it equals the
\* count of the payload bytes after it; a headerless file of such a field and
\* the record 0x0A 0x00 'LD A,1' 0x0D decodes to '    10  LD A,1' and a newline.
C12_LeadCountsBytesAfter ==
    C12_Case
    => /\ ~FirstFieldEmitted <=> FirstField = AsmBound - 2
       /\ infile = PackH(Len(LdRecord)) \o LdRecord => outfile = LdLine

\* C12: the first field is dropped, with no line emitted for it, exactly when
\* it equals the count of the payload bytes from the field on (the 2 bytes of
\* the field and the bytes after it); otherwise it is a line number, and a
\* later field is a line number also when it equals the count of the bytes
\* left. A headerless file of a first field that counts itself and the
\* record 0x0A 0x00 'LD A,1' 0x0D decodes to '    10  LD A,1' and a newline.
C12_LeadCountsWholePayload ==
    C12_Case
    => /\ ~FirstFieldEmitted <=> FirstField = AsmBound
       /\ infile = PackH(Len(LdRecord) + 2) \o LdRecord => outfile = LdLine
       /\ infile = <<1, 0, 65, 13, 5, 0, 66, 67, 13>>
          => outfile = <<32, 32, 32, 32, 32, 49, 32, 32, 65, 10, 32, 32, 32, 32, 32, 53, 32, 32, 66, 67, 10>>

C12_Witness ==
    /\ C12_Case
    /\ infile = PackH(Len(LdRecord) + 2) \o LdRecord
    /\ outfile = LdLine

\* the line numbers of the line records in bytes written by u2asm: 2 bytes,
\* then the bytes up to the next 0x0D
RecordEnd(b) ==
    IF \E i \in 3..Len(b) : b[i] = 13
    THEN CHOOSE i \in 3..Len(b) : b[i] = 13 /\ \A j \in 3..(i - 1) : b[j] # 13
    ELSE Len(b)
RECURSIVE RecordNumbers(_)
RecordNumbers(b) ==
    IF Len(b) < 2 THEN <<>>
    ELSE <<UnpackH(b)>> \o RecordNumbers(SubSeq(b, RecordEnd(b) + 1, Len(b)))

\* the records written so far, after the 128 bytes kept for the +3DOS header
WrittenRecords == IF opts.prepend_plus3dos_header THEN PySliceFrom(outfile, HEADER_LENGTH) ELSE outfile

\* the pattern of line 828 applied to the line u2asm reads next, as line 848
\* applies it
C13_LineRead == RegexLineNumber(RStrip(ReadLine(infile, inpos)))

\* the number the claim gives the line read next: its decimal prefix if the
\* pattern finds one, otherwise 10 more than the number of the record written
\* last (10 when no record was written yet)
C13_Claimed ==
    IF C13_LineRead.matched THEN IntOf(C13_LineRead.group1)
    ELSE IF RecordNumbers(WrittenRecords) = <<>> THEN 10
    ELSE RecordNumbers(WrittenRecords)[Len(RecordNumbers(WrittenRecords))] + 10

\* the bytes u2asm appends for the line it reads start with line number n
C13_WritesNumber(n) ==
    /\ Len(outfile') >= Len(outfile) + 2
    /\ SubSeq(outfile', 1, Len(outfile)) = outfile
    /\ UnpackH(SubSeq(outfile', Len(outfile) + 1, Len(outfile) + 2)) = n

\* C13 as stated: for every input line u2asm reads, the line number written
\* is the line's decimal prefix if it has one, and otherwise the number
\* written for the line before plus 10 (10 for a first line with no prefix).
C13_EveryLineNumbered ==
    [][ (pc = "u2asm" /\ inpos' > inpos) => C13_WritesNumber(C13_Claimed) ]_vars

\* the prefix of the line read next has more digits than int() converts
C13_PrefixTooLong == C13_LineRead.matched /\ IntRaises(C13_LineRead.group1)

\* nothing is written for the line read and the run ends with exception e
C13_StopsWith(e) == outfile' = outfile /\ ret' = e /\ pc' = "idle"

\* C13 amended: for every input line u2asm reads, with n the line's decimal
\* prefix if the pattern finds one and otherwise the number written for the
\* line before plus 10 (10 for a first line with no prefix): when n is at
\* most 65535 the record written for the line starts with n, and when n is
\* larger nothing is written for the line and the run ends in struct.error.
\* A prefix of more than 4300 digits is not converted at all: nothing is
\* written for the line and the run ends in ValueError. A prefix changes
\* the counter's value and never the step.
C13_LineNumbers ==
    [][ (pc = "u2asm" /\ inpos' > inpos)
        => IF C13_PrefixTooLong THEN C13_StopsWith("ValueError")
           ELSE IF C13_Claimed <= 65535 THEN C13_WritesNumber(C13_Claimed)
           ELSE C13_StopsWith("struct.error") ]_vars

\* '20 NOP' and 'HALT' were written with the line numbers 20 and 30
C13_Witness ==
    /\ op = U2Asm /\ pc = "idle" /\ ret = "None"
    /\ infile = <<50, 48, 32, 78, 79, 80, 10, 72, 65, 76, 84, 10>>
    /\ ~opts.prepend_plus3dos_header /\ ~opts.append_soft_eof
    /\ outfile = <<20, 0, 78, 79, 80, 13, 30, 0, 72, 65, 76, 84, 13>>

\* a decoder that was told to stop at a soft-EOF read a file with no valid
\* +3DOS header
SoftEofCase ==
    /\ op \in {Bas, Asm} /\ opts.stop_at_soft_eof
    /\ ~HeaderValid
    /\ ret = "None"

\* C14: when such a run ends at a 0x1A byte of a line's content (the last
\* byte read is 0x1A and bytes are left unread), the output holds nothing of
\* that line: it is empty or ends with the newline of the line before.
C14_NothingOfCutLine ==
    (SoftEofCase /\ inpos >= 1 /\ inpos < Len(infile) /\ infile[inpos] = 26)
    => (outfile = <<>> \/ outfile[Len(outfile)] = 10)

\* C15: when one of the two line-number bytes of the first line record is
\* 0x1A, such a run ends at that record and emits nothing.
C15_SoftEofInLineNumber ==
    (SoftEofCase /\ Len(infile) >= 4 /\ (infile[1] = 26 \/ infile[2] = 26))
    => (outfile = <<>> /\ inpos <= 4)


\* the same call with the stop-at-soft-EOF option flipped
OtherStopOption ==
    IF op = Bas
    THEN spectrum_sinclair_bas_to_unicode(infile, tape_header, opts.use_spectrum48k_tokens,
                                          ~opts.stop_at_soft_eof)
    ELSE spectrum_hisoft_gen_asm_to_unicode(infile, opts.include_line_numbers,
                                            ~opts.stop_at_soft_eof)

\* C16: when the input starts with a valid +3DOS header, a decoder's result
\* and output are those of the same call with the stop-at-soft-EOF option
\* flipped, and the run never ends at a 0x1A byte with payload left unread.
C16_OptionIgnored ==
    (op \in {Bas, Asm} /\ HeaderValid)
    => /\ ret = OtherStopOption.ret
       /\ outfile = OtherStopOption.out
       /\ inpos = OtherStopOption.pos
       /\ ~(ret = "None" /\ inpos < Len(infile) /\ infile[inpos] = 26)

\* a file with a valid header was decoded with the option on, a 0x1A byte of
\* its payload was read and the decoder went on to the end of the line
C16_Witness ==
    /\ op \in {Bas, Asm} /\ HeaderValid /\ opts.stop_at_soft_eof
    /\ ret = "None"
    /\ \E i \in (HEADER_LENGTH + 1)..(inpos - 1) : infile[i] = 26
    /\ \E j \in 1..(Len(outfile) - 2) : outfile[j] = 26
    /\ outfile[Len(outfile)] = 10


\* a headerless file was decoded by the tokenized-program decoder, with no
\* tape header file
C17_Case == op = Bas /\ ~tape_header.given /\ ~HeaderValid

\* the same call on another file
BasOutputOf(file) ==
    spectrum_sinclair_bas_to_unicode(file, tape_header, opts.use_spectrum48k_tokens,
                                     opts.stop_at_soft_eof)

\* C17: the record of line 1 with content 'A', 0x0E, the five bytes
\* 0x0D 0x1A 0x0E 0x01 0x02, 'B', 0x0D decodes to "   1 AB" and a newline
\* with or without the stop-at-soft-EOF option: the marker and the five bytes
\* are read, emit nothing and end nothing, and 'B' is translated.  Wherever
\* that record stands in a headerless file, at the start or after a record
\* that ends with 0x0D, the result and the output are those of the file that
\* holds the record 'A', 'B', 0x0D in its place.
C17_NumberSkipped ==
    C17_Case =>
        /\ infile = NumberRecord
           => /\ ret = "None"
              /\ outfile = <<32, 32, 32, 49, 32, 65, 66, 10>>
              /\ inpos = Len(infile)
        /\ \A a, b \in {<<>>} \cup BasRecords :
               (infile = a \o NumberRecord \o b /\ (a = <<>> \/ a[Len(a)] = 13))
               => /\ ret = BasOutputOf(a \o NoNumberRecord \o b).ret
                  /\ outfile = BasOutputOf(a \o NoNumberRecord \o b).out

\* the record with the number was decoded after another line, with the
\* stop-at-soft-EOF option on, and its 'B' was emitted
C17_Witness ==
    /\ C17_Case /\ opts.stop_at_soft_eof
    /\ infile = PrintRecord \o NumberRecord
    /\ ret = "None"
    /\ inpos = Len(infile)
    /\ Len(outfile) > 3
    /\ SubSeq(outfile, Len(outfile) - 2, Len(outfile)) = <<65, 66, 10>>


\* the program length was supplied by a Program header: a tape header file of
\* 17 or 19 bytes for a program of the payload's length, or a valid +3DOS
\* header with a Program sub-header
ProgramLengthSupplied ==
    \/ /\ tape_header.given
       /\ tape_header \in TapeHeadersFor(Len(Payload))
       /\ Len(tape_header.bytes) \in {TAPE_HEADER_LENGTH, TAPE_HEADER_LENGTH + 2}
    \/ /\ HeaderValid
       /\ ~is_zeroed(HeaderOf(infile).basic_header)
       /\ HeaderOf(infile).basic_header.file_type = TYPE_BASIC_PROGRAM

\* the lengths of a +3DOS header, when there is one, cover the whole payload
BoundCoversPayload ==
    HeaderValid =>
        /\ HeaderOf(infile).file_length_with_header = HEADER_LENGTH + Len(Payload)
        /\ \/ is_zeroed(HeaderOf(infile).basic_header)
           \/ HeaderOf(infile).basic_header.basic_prog_length = Len(Payload)

\* the payload is the one record of line number 0x4000
C18_Case == op = Bas /\ Payload = VarsRecord /\ BoundCoversPayload

\* C18: the record with line number 0x4000 stops the decoder, with nothing
\* emitted, when no Program header supplied the program length, and is
\* emitted as the ordinary line "16384  PRINT " when one did.
C18_VarsOnlyWithoutLength ==
    C18_Case =>
        /\ ret = "None"
        /\ outfile = IF ProgramLengthSupplied
                     THEN <<49, 54, 51, 56, 52, 32, 32, 80, 82, 73, 78, 84, 32, 10>>
                     ELSE <<>>


----------------------------------------------------------------------------
\* Claims about the character tables

Dict128 == "dict_spectrum128_to_unicode"
Dict48 == "dict_spectrum48_to_unicode"
DictHisoft == "dict_spectrum_hisoft_gen_asm_to_unicode"

\* the text was encoded with the table that belongs to the one it was
\* decoded with
MatchingTables ==
    \/ argkind \in {Dict128, Dict48} /\ op = "dict_unicode_to_spectrum"
    \/ argkind = DictHisoft /\ op = "dict_unicode_to_spectrum_hisoft_gen_asm"

\* C19: with the table of the assembly codec byte 0x06 does not decode to a
\* tab and a tab encodes to 0x09; with the two keyword tables byte 0x06
\* decodes to a tab and a tab encodes to 0x06.
C19_TabMapping ==
    /\ (op = "decode" /\ arg = <<6>>)
       => IF argkind = DictHisoft THEN outfile # <<9>> ELSE outfile = <<9>>
    /\ (MatchingTables /\ outfile = <<9>>)
       => IF argkind = DictHisoft THEN out = <<9>> ELSE out = <<6>>

\* C20 as claimed: a byte that decodes to one character is given back by
\* encoding that character with the matching table.
C20_RoundTrip ==
    (MatchingTables /\ Len(outfile) = 1) => out = arg

\* the byte the matching table encodes a tab as: lines 206 and 364-366
TabEncoded == IF argkind = DictHisoft THEN <<9>> ELSE <<6>>

\* C20 amended: when a byte decodes to one character other than a tab or a
\* newline, encoding that character with the matching table gives the byte
\* back. A newline is always encoded as 0x0D, and a tab as 0x06 with the
\* keyword tables and as 0x09 with the table of the assembly codec, whichever
\* byte they were decoded from: 0x0A in every variant, and 0x09 in the two
\* keyword variants, are therefore not given back.
C20_RoundTripButTabAndNewline ==
    /\ (MatchingTables /\ Len(outfile) = 1)
       => IF outfile = <<9>> THEN out = TabEncoded
          ELSE IF outfile = <<10>> THEN out = <<13>>
          ELSE out = arg
    /\ (MatchingTables /\ arg = <<10>>) => (outfile = <<10>> /\ out # arg)
    /\ (MatchingTables /\ arg = <<9>> /\ argkind \in {Dict128, Dict48})
       => (outfile = <<9>> /\ out # arg)

\* a block graphics byte was decoded to its one character and encoded back
C20_Witness ==
    /\ MatchingTables /\ argkind = Dict48
    /\ arg = <<143>> /\ outfile = <<9608>> /\ out = <<143>>

----------------------------------------------------------------------------
\* Claims about the headers the listing functions write and read

\* unicode_to_spectrum_hisoft_gen_asm ran with the +3DOS header requested
U2AsmWithHeader == op = U2Asm /\ opts.prepend_plus3dos_header

\* the function came to its end and returned
U2AsmCompleted == pc = "idle" /\ ret = "None"

\* the first 128 bytes of the output file, decoded by a new header object
WrittenHeader == P3Decode(P3Init(0), PySlice(outfile, 0, HEADER_LENGTH))

\* the size of the output file without the soft-EOF byte, if one was appended
SizeLessSoftEof == Len(outfile) - (IF opts.append_soft_eof THEN 1 ELSE 0)

\* C21: when u2asm completes with the +3DOS header requested, the first 128
\* bytes of the output decode as a header; its total length is the size of
\* the file, less 1 when a soft-EOF byte was appended; its sub-header is
\* CodeOrScreen with a length of that total less 128; its last byte is the
\* sum of the 127 bytes before it modulo 256.
C21_HeaderRewritten ==
    (U2AsmWithHeader /\ U2AsmCompleted)
    => /\ WrittenHeader.ret = "True"
       /\ WrittenHeader.obj.file_length_with_header = SizeLessSoftEof
       /\ WrittenHeader.obj.basic_header.file_type = TYPE_CODE_OR_SCREEN
       /\ WrittenHeader.obj.basic_header.file_length = SizeLessSoftEof - HEADER_LENGTH
       /\ outfile[HEADER_LENGTH] = SumRange(outfile, 1, HEADER_LENGTH - 1) % 256

\* two lines were encoded after the placeholder, a soft-EOF byte was appended
\* and the header was rewritten
C21_Witness ==
    /\ U2AsmWithHeader /\ U2AsmCompleted /\ opts.append_soft_eof
    /\ inpos = Len(infile)
    /\ Len(RecordNumbers(SubSeq(outfile, HEADER_LENGTH + 1, Len(outfile) - 1))) = 2
    /\ Len(outfile) > HEADER_LENGTH + 9
    /\ outfile[Len(outfile)] = 26
    /\ WrittenHeader.obj.file_length_with_header = Len(outfile) - 1


\* the tape header file holds a Program header, in its 17-byte or its wrapped
\* 19-byte form, for a program of the input file's length
ProgramTapeHeaderGiven ==
    /\ tape_header.given
    /\ tape_header \in TapeHeadersFor(Len(infile))
    /\ Len(tape_header.bytes) \in {TAPE_HEADER_LENGTH, TAPE_HEADER_LENGTH + 2}

\* the lines of the input file decoded within the bound length, with the
\* program length known
DecodedWithKnownLength(length) ==
    BasLines(infile,
             IF opts.use_spectrum48k_tokens THEN dict_spectrum48_to_unicode
             ELSE dict_spectrum128_to_unicode,
             opts.stop_at_soft_eof, TRUE,
             [pos |-> 0, max_length |-> length, out |-> <<>>, at |-> "line"])

\* C22: given a tape header file with a valid Program header and an input
\* file with no +3DOS header, the tokenized-program decoder returns and its
\* output is the lines decoded within the header's program length with the
\* program length known, so a record of line number 0x4000 or more is a line.
C22_TapeHeaderBoundsDecoding ==
    (op = Bas /\ ProgramTapeHeaderGiven /\ ~HeaderValid)
    => /\ ret = "None"
       /\ outfile = DecodedWithKnownLength(Len(infile)).out


\* C23: while u2asm runs with the +3DOS header requested, and in the state an
\* aborted run leaves, the first 128 bytes of the output file do not decode
\* as a header; when they do, the function has completed, the header's total
\* length is the size of the payload written (the file less an appended
\* soft-EOF byte) and its last byte is the sum of the bytes before it.
C23_NoHeaderBeforeRewrite ==
    U2AsmWithHeader =>
        /\ ~U2AsmCompleted => WrittenHeader.ret = "False"
        /\ WrittenHeader.ret = "True"
           => /\ U2AsmCompleted
              /\ WrittenHeader.obj.file_length_with_header = SizeLessSoftEof
              /\ outfile[HEADER_LENGTH] = SumRange(outfile, 1, HEADER_LENGTH - 1) % 256

\* a line was written after the placeholder and the next line's number did
\* not fit 16 bits: the run was aborted with the placeholder in place
C23_Witness ==
    /\ U2AsmWithHeader
    /\ pc = "idle" /\ ret = "struct.error"
    /\ Len(outfile) > HEADER_LENGTH
    /\ PySlice(outfile, 0, HEADER_LENGTH) = LJust(<<>>, HEADER_LENGTH, 0)


\* the bound a valid +3DOS header gives: its total length less 128, lowered
\* to the program length of a Program sub-header
BoundL ==
    LET total == HeaderOf(infile).file_length_with_header - HEADER_LENGTH
        sub   == HeaderOf(infile).basic_header
    IN  IF ~is_zeroed(sub) /\ sub.file_type = TYPE_BASIC_PROGRAM /\ sub.basic_prog_length < total
        THEN sub.basic_prog_length
        ELSE total

\* C24: when the input starts with a valid +3DOS header, the
\* tokenized-program decoder reads no payload byte at offset L or beyond: the
\* read position it leaves is at most 128 + L.
C24_BoundNotExceeded ==
    (op = Bas /\ HeaderValid) => inpos <= HEADER_LENGTH + BoundL


\* u2asm wrote every line of the text and was to write the tape header file
TapeHeaderDue ==
    /\ op = U2Asm /\ opts.write_tape_header
    /\ pc = "idle" /\ inpos = Len(infile)
    /\ ret # "struct.error"

\* C25: the tape header u2asm makes from the name of the output file is
\* encoded without a failed length assertion, and the header file holds
\* exactly 17 bytes.
C25_TapeHeaderIs17Bytes ==
    TapeHeaderDue => (ret = "None" /\ Len(headerfile) = TAPE_HEADER_LENGTH)

====
